---- MODULE Spec2Model ----
(***************************************************************************)
(* Node-image resolution of the Azure Karpenter provider                   *)
(* (pkg/providers/imagefamily/image.go, custom_image.go).                  *)
(*                                                                         *)
(* Provider state: the image cache, the kubernetes version cache and the   *)
(* change monitor.  One action per exported method of Provider; the remote *)
(* APIs answer nondeterministically at each call.  Time is counted in      *)
(* hours.  Strings are TLA+ strings and fmt.Sprintf is concatenation, so   *)
(* keys and image IDs are the strings the program builds.                  *)
(***************************************************************************)
EXTENDS Integers, Sequences, FiniteSets, TLC

VARIABLES
    now,                    \* wall clock, hours since construction
    nCalls,                 \* number of Provider method calls so far
    imageCache,             \* Provider.imageCache: key -> [Object, Expiration]
    kubernetesVersionCache, \* Provider.kubernetesVersionCache
    cm,                     \* Provider.cm: key -> last value seen
    last,                   \* observation of the most recent call
    running                 \* the calls in progress on concurrent goroutines

vars == <<now, nCalls, imageCache, kubernetesVersionCache, cm, last, running>>

----------------------------------------------------------------------------
(* Bounds of the model *)

MaxTicks == 2
MaxCalls == 2
MaxPages == 2
MaxPageLen == 2
MaxVersions == 3
MaxThreads == 2
MaxResolutions == 3

----------------------------------------------------------------------------
(* Program constants (image.go:51-61, custom_image.go:31-34) *)

kubernetesVersionCacheKey == "kubernetesVersion"

\* time.Hour * 24 * 3, in hours
imageExpirationInterval == 72
\* time.Hour * 1, in hours
imageCacheCleaningInterval == 1

\* default expiration of the injected kubernetes version cache, in hours
KubernetesVersionTTL == 1

\* fmt.Sprintf(sharedImageKey, a, b): "%s/%s"
sharedImageKey(imageGallery, imageDefinition) ==
    imageGallery \o "/" \o imageDefinition

\* fmt.Sprintf(communityImageKey, a, b): "%s/%s"
communityImageKey(publicGalleryURL, communityImageName) ==
    publicGalleryURL \o "/" \o communityImageName

\* fmt.Sprintf(sharedImageGalleryImageIDFormat, ...)
sharedImageGalleryImageIDFormat(sub, rg, gallery, image, version) ==
    "/subscriptions/" \o sub \o "/resourceGroups/" \o rg
        \o "/providers/Microsoft.Compute/galleries/" \o gallery
        \o "/images/" \o image \o "/versions/" \o version

\* fmt.Sprintf(communityImageIDFormat, ...)
communityImageIDFormat(gallery, image, version) ==
    "/CommunityGalleries/" \o gallery \o "/images/" \o image
        \o "/versions/" \o version

PrivateGalleryURL == "UserDefined"

\* Provider.location, Provider.subscription, options.SIGSubscriptionID
location == "eastus"
subscription == "sub-cluster"
SIGSubscriptionID == "sub-sig"

----------------------------------------------------------------------------
(* Pointers: *string is nil or points to a string *)

NilPtr == [nil |-> TRUE, v |-> ""]
Ptr(s) == [nil |-> FALSE, v |-> s]

\* lo.FromPtr
FromPtr(p) == IF p.nil THEN "" ELSE p.v

NoErr == ""

----------------------------------------------------------------------------
(* Expiring cache (github.com/patrickmn/go-cache) *)

EmptyCache == [k \in {} |-> [Object |-> "", Expiration |-> 0]]

\* an item whose expiration has been reached is not reported
Expired(item, t) == t >= item.Expiration

CacheGet(c, k, t) ==
    IF k \in DOMAIN c /\ ~Expired(c[k], t)
    THEN [found |-> TRUE, Object |-> c[k].Object]
    ELSE [found |-> FALSE, Object |-> ""]

CacheSet(c, k, x, d, t) ==
    [kk \in DOMAIN c \cup {k} |->
        IF kk = k THEN [Object |-> x, Expiration |-> t + d] ELSE c[kk]]

\* the janitor's sweep
DeleteExpired(c, t) ==
    [k \in {kk \in DOMAIN c : ~Expired(c[kk], t)} |-> c[k]]

----------------------------------------------------------------------------
(* Change monitor (sigs.k8s.io/karpenter/pkg/utils/pretty) *)

EmptyMonitor == [k \in {} |-> ""]

HasChanged(m, k, v) == k \notin DOMAIN m \/ m[k] # v

Observe(m, k, v) == [kk \in DOMAIN m \cup {k} |-> IF kk = k THEN v ELSE m[kk]]

----------------------------------------------------------------------------
(* Inputs: default image descriptors, image families, instance types,      *)
(* custom image terms                                                      *)

ArchitectureAmd64 == "amd64"
ArchitectureArm64 == "arm64"
HyperVGenerationV1 == "1"
HyperVGenerationV2 == "2"

\* CustomImages.DefaultImages(): one entry, no image definition, no gallery
CustomImagesDefaultImages ==
    << [PublicGalleryURL |-> PrivateGalleryURL,
        ImageDefinition |-> "",
        GalleryName |-> "",
        GalleryResourceGroup |-> "",
        Distro |-> "aks-ubuntu-containerd-22.04-gen2",
        Requirements |-> [arch |-> {ArchitectureAmd64},
                          hvgen |-> {HyperVGenerationV2}]] >>

\* an image family with two entries, as the Ubuntu2204 family declares them
Ubuntu2204DefaultImages ==
    << [PublicGalleryURL |-> "AKSUbuntu-38d8",
        ImageDefinition |-> "2204gen2containerd",
        GalleryName |-> "AKSUbuntu",
        GalleryResourceGroup |-> "AKS-Ubuntu",
        Distro |-> "aks-ubuntu-containerd-22.04-gen2",
        Requirements |-> [arch |-> {ArchitectureAmd64},
                          hvgen |-> {HyperVGenerationV2}]],
       [PublicGalleryURL |-> "AKSUbuntu-38d8",
        ImageDefinition |-> "2204gen2arm64containerd",
        GalleryName |-> "AKSUbuntu",
        GalleryResourceGroup |-> "AKS-Ubuntu",
        Distro |-> "aks-ubuntu-arm64-containerd-22.04-gen2",
        Requirements |-> [arch |-> {ArchitectureArm64},
                          hvgen |-> {HyperVGenerationV2}]] >>

\* ImageFamily values handed to Get: each is its DefaultImages()
ImageFamilies == {Ubuntu2204DefaultImages, CustomImagesDefaultImages}

Range(s) == {s[i] : i \in 1..Len(s)}

\* descriptors handed to GetLatestImageID
DefaultImageOutputs == Range(Ubuntu2204DefaultImages)

\* instance types: a name and the values of the two labels the catalogs use
InstanceTypes ==
    { [Name |-> "Standard_D2s_v3",
       Requirements |-> [arch |-> {ArchitectureAmd64}, hvgen |-> {HyperVGenerationV2}]],
      [Name |-> "Standard_D2ps_v5",
       Requirements |-> [arch |-> {ArchitectureArm64}, hvgen |-> {HyperVGenerationV2}]] }

\* Requirements.Compatible(..., AllowUndefinedWellKnownAndRestrictedLabels):
\* every label both sides define must have a value in common
Compatible(instanceRequirements, requirements) ==
    /\ instanceRequirements.arch \cap requirements.arch # {}
    /\ instanceRequirements.hvgen \cap requirements.hvgen # {}

\* v1alpha2.CustomImageTerm{}
ZeroCustomImageTerm ==
    [GallerySubscriptionID |-> "", GalleryResourceGroupName |-> "",
     GalleryName |-> "", Name |-> "", Version |-> "", DistroName |-> ""]

PinnedCustomImageTerm ==
    [GallerySubscriptionID |-> "sub-custom", GalleryResourceGroupName |-> "rg-images",
     GalleryName |-> "mygallery", Name |-> "myimage", Version |-> "1.0.0",
     DistroName |-> "aks-ubuntu-arm64-containerd-22.04-gen2"]

LatestCustomImageTerm == [PinnedCustomImageTerm EXCEPT !.Version = ""]

DistroOnlyCustomImageTerm ==
    [ZeroCustomImageTerm EXCEPT !.DistroName = "aks-ubuntu-containerd-22.04-gen2"]

CustomImageTerms ==
    {ZeroCustomImageTerm, PinnedCustomImageTerm, LatestCustomImageTerm,
     DistroOnlyCustomImageTerm}

----------------------------------------------------------------------------
(* Remote answers.  A listing is the sequence of pages its pager yields;   *)
(* the first More() of a pager is always true, so a listing has at least   *)
(* one page.  A page is a list of records or a failed request.             *)

RemoteErrors == {"RemoteLookupFailure", "RemoteThrottled"}

Page(value) == [err |-> NoErr, Value |-> value]
ErrPage(e) == [err |-> e, Value |-> <<>>]

\* all sequences over S of length 0..n
RECURSIVE SeqsUpTo(_, _)
SeqsUpTo(S, n) ==
    IF n = 0 THEN {<<>>}
    ELSE LET shorter == SeqsUpTo(S, n - 1)
         IN shorter \cup {Append(s, x) : s \in {t \in shorter : Len(t) = n - 1}, x \in S}

PagesOver(records, maxLen) ==
    {Page(v) : v \in SeqsUpTo(records, maxLen)} \cup {ErrPage(e) : e \in RemoteErrors}

ListingsOver(pages, maxPages) == SeqsUpTo(pages, maxPages) \ {<<>>}

\* armcompute.CommunityGalleryImageVersion: Name, Properties.PublishedDate
CommunityVersion(name, date) == [Name |-> Ptr(name), PublishedDate |-> date]
ZeroCommunityVersion == [Name |-> NilPtr, PublishedDate |-> 0]

\* armcompute.GalleryImageVersion: ID, Properties.PublishingProfile.PublishedDate
GalleryVersion(id, date) == [ID |-> id, PublishedDate |-> date]
ZeroGalleryVersion == [ID |-> NilPtr, PublishedDate |-> 0]

\* NodeImageVersion: SKU, Version
NodeImageVersion(sku, version) == [SKU |-> sku, Version |-> version]

----------------------------------------------------------------------------
(* Remote requests, as the call log records them *)

CommunityListRequest(loc, publicGalleryURL, communityImageName) ==
    [api |-> "CommunityGalleryImageVersions.List",
     args |-> <<loc, publicGalleryURL, communityImageName>>]

NodeImageVersionsListRequest(loc, sub) ==
    [api |-> "NodeImageVersions.List", args |-> <<loc, sub>>]

GalleryGetRequest(sub, rg, gallery, image, version) ==
    [api |-> "GalleryImageVersions.Get", args |-> <<sub, rg, gallery, image, version>>]

GalleryListRequest(sub, rg, gallery, image) ==
    [api |-> "GalleryImageVersions.ListByGalleryImage", args |-> <<sub, rg, gallery, image>>]

ServerVersionRequest == [api |-> "Discovery.ServerVersion", args |-> <<>>]

Repeat(x, n) == [i \in 1..n |-> x]

----------------------------------------------------------------------------
(* Community gallery resolver (image.go:202-229) *)

\* mutant: a record as late as the candidate counts as later
AfterOrEqual(a, b) == a >= b

\* time.Time.After
After(a, b) == a > b

BuildImageIDCIG(publicGalleryURL, communityImageName, imageVersion) ==
    communityImageIDFormat(publicGalleryURL, communityImageName, imageVersion)

\* mutant: every record replaces the candidate
NextCommunityCandidateLastSeen(topImageVersionCandidate, imageVersion) == imageVersion

\* image.go:219-221: one record against the current candidate
NextCommunityCandidate(topImageVersionCandidate, imageVersion) ==
    IF topImageVersionCandidate = ZeroCommunityVersion
       \/ After(imageVersion.PublishedDate, topImageVersionCandidate.PublishedDate)
    THEN imageVersion
    ELSE topImageVersionCandidate

RECURSIVE ScanCommunityPage(_, _, _)
ScanCommunityPage(value, i, cand) ==
    IF i > Len(value) THEN cand
    ELSE ScanCommunityPage(value, i + 1, NextCommunityCandidate(cand, value[i]))

\* image.go:213-224: the pager loop from page i on
RECURSIVE CommunityPagerLoop(_, _, _)
\* mutant: a failing page ends the loop with the candidate read so far
CommunityPagerLoopKeepsPartial(pages, i, cand) ==
    IF i > Len(pages) THEN [err |-> NoErr, Name |-> FromPtr(cand.Name), fetched |-> Len(pages)]
    ELSE IF pages[i].err # NoErr
    THEN [err |-> NoErr, Name |-> FromPtr(cand.Name), fetched |-> i]
    ELSE CommunityPagerLoop(pages, i + 1, ScanCommunityPage(pages[i].Value, 1, cand))

CommunityPagerLoop(pages, i, cand) ==
    IF i > Len(pages) THEN [err |-> NoErr, Name |-> FromPtr(cand.Name), fetched |-> Len(pages)]
    ELSE IF pages[i].err # NoErr THEN [err |-> pages[i].err, Name |-> "", fetched |-> i]
    ELSE CommunityPagerLoop(pages, i + 1, ScanCommunityPage(pages[i].Value, 1, cand))

latestNodeImageVersionCommunity(publicGalleryURL, communityImageName, pages) ==
    LET r == CommunityPagerLoop(pages, 1, ZeroCommunityVersion)
    IN [err |-> r.err, Name |-> r.Name,
        calls |-> Repeat(CommunityListRequest(location, publicGalleryURL, communityImageName),
                         r.fetched)]

\* mutant: an empty version name is an error
getCIGImageIDRejectsEmpty(publicGalleryURL, communityImageName, pages) ==
    LET r == latestNodeImageVersionCommunity(publicGalleryURL, communityImageName, pages)
    IN IF r.err # NoErr
       THEN [err |-> r.err, id |-> "", calls |-> r.calls]
       ELSE IF r.Name = ""
       THEN [err |-> "no version of the image " \o communityImageName,
             id |-> "", calls |-> r.calls]
       ELSE [err |-> NoErr,
             id |-> BuildImageIDCIG(publicGalleryURL, communityImageName, r.Name),
             calls |-> r.calls]

getCIGImageID(publicGalleryURL, communityImageName, pages) ==
    LET r == latestNodeImageVersionCommunity(publicGalleryURL, communityImageName, pages)
    IN IF r.err # NoErr
       THEN [err |-> r.err, id |-> "", calls |-> r.calls]
       ELSE [err |-> NoErr,
             id |-> BuildImageIDCIG(publicGalleryURL, communityImageName, r.Name),
             calls |-> r.calls]

----------------------------------------------------------------------------
(* Shared gallery resolver (image.go:188-200) *)

NoMatchingVersion(imageDefinition) ==
    "failed to get the latest version of the image " \o imageDefinition

\* index of the first version whose SKU is the image definition, 0 if none
\* mutant: the last matching record wins
FirstSKUMatchLast(values, i, imageDefinition) ==
    LET S == {j \in i..Len(values) : imageDefinition = values[j].SKU}
    IN IF S = {} THEN 0 ELSE CHOOSE j \in S : \A k \in S : k <= j

RECURSIVE FirstSKUMatch(_, _, _)
FirstSKUMatch(values, i, imageDefinition) ==
    IF i > Len(values) THEN 0
    ELSE IF imageDefinition = values[i].SKU THEN i
    ELSE FirstSKUMatch(values, i + 1, imageDefinition)

\* mutant: matches the SKU against the gallery name
getSIGImageIDByGalleryName(imgStub, versions) ==
    LET calls == <<NodeImageVersionsListRequest(location, subscription)>>
        i == FirstSKUMatch(versions.Values, 1, imgStub.GalleryName)
    IN IF versions.err # NoErr THEN [err |-> versions.err, id |-> "", calls |-> calls]
       ELSE IF i = 0
       THEN [err |-> NoMatchingVersion(imgStub.ImageDefinition), id |-> "", calls |-> calls]
       ELSE [err |-> NoErr,
             id |-> sharedImageGalleryImageIDFormat(SIGSubscriptionID,
                        imgStub.GalleryResourceGroup, imgStub.GalleryName,
                        imgStub.ImageDefinition, versions.Values[i].Version),
             calls |-> calls]

\* versions: [err, Values], the answer of NodeImageVersions.List
getSIGImageID(imgStub, versions) ==
    LET calls == <<NodeImageVersionsListRequest(location, subscription)>>
        i == FirstSKUMatch(versions.Values, 1, imgStub.ImageDefinition)
    IN IF versions.err # NoErr THEN [err |-> versions.err, id |-> "", calls |-> calls]
       ELSE IF i = 0
       THEN [err |-> NoMatchingVersion(imgStub.ImageDefinition), id |-> "", calls |-> calls]
       ELSE [err |-> NoErr,
             id |-> sharedImageGalleryImageIDFormat(SIGSubscriptionID,
                        imgStub.GalleryResourceGroup, imgStub.GalleryName,
                        imgStub.ImageDefinition, versions.Values[i].Version),
             calls |-> calls]

\* image.go:181-186; resp carries the answer of whichever backend is asked
resolveImageID(defaultImage, useSIG, resp) ==
    IF useSIG
    THEN getSIGImageID(defaultImage, resp.versions)
    ELSE getCIGImageID(defaultImage.PublicGalleryURL, defaultImage.ImageDefinition, resp.pages)

----------------------------------------------------------------------------
(* What the remote side answers during one call.  Each method reads only   *)
(* the part it asks for.                                                   *)

NoResp ==
    [cred |-> NoErr,              \* azidentity.NewDefaultAzureCredential
     client |-> NoErr,            \* armcompute.NewClientFactory
     point |-> [err |-> NoErr, rec |-> ZeroGalleryVersion],
     pages |-> <<>>,
     versions |-> [err |-> NoErr, Values |-> <<>>],
     serverVersion |-> [err |-> NoErr, GitVersion |-> ""]]

\* the result of a method: what it returns, the requests it issued, the
\* notifications it logged, the state it leaves and the answers it consumed
Result(outcome, err, distro, id, calls, logs, ic, kc, m, resp) ==
    [outcome |-> outcome, err |-> err, distro |-> distro, id |-> id,
     calls |-> calls, logs |-> logs,
     imageCache |-> ic, kubernetesVersionCache |-> kc, cm |-> m, resp |-> resp]

DiscoveredImage(id) == [msg |-> "discovered new image id", value |-> id]
DiscoveredVersion(v) == [msg |-> "discovered kubernetes version", value |-> v]

----------------------------------------------------------------------------
(* Provider.GetLatestImageID (image.go:101-120) *)

\* mutant: the community key whatever the mode
\* mutant: the key is narrowed to the image definition
LatestImageKeyByDefinition(defaultImage, useSIG) == defaultImage.ImageDefinition

LatestImageKeyCommunity(defaultImage, useSIG) ==
    communityImageKey(defaultImage.PublicGalleryURL, defaultImage.ImageDefinition)

LatestImageKey(defaultImage, useSIG) ==
    IF useSIG
    THEN sharedImageKey(defaultImage.GalleryName, defaultImage.ImageDefinition)
    ELSE communityImageKey(defaultImage.PublicGalleryURL, defaultImage.ImageDefinition)

\* mutant: resolves without looking the key up
GetLatestImageIDNoLookup(defaultImage, useSIG, ic, kc, m, t, resp) ==
    LET key == LatestImageKey(defaultImage, useSIG)
        r == resolveImageID(defaultImage, useSIG, resp)
        used == IF useSIG THEN [NoResp EXCEPT !.versions = resp.versions]
                ELSE [NoResp EXCEPT !.pages = resp.pages]
    IN IF r.err # NoErr
       THEN Result("err", r.err, "", "", r.calls, <<>>, ic, kc, m, used)
       ELSE Result("ok", NoErr, "", r.id, r.calls, <<DiscoveredImage(r.id)>>,
                   CacheSet(ic, key, r.id, imageExpirationInterval, t), kc, m, used)

\* mutant: remembers a failed resolution as an empty ID
GetLatestImageIDNegativeCache(defaultImage, useSIG, ic, kc, m, t, resp) ==
    LET key == LatestImageKey(defaultImage, useSIG)
        hit == CacheGet(ic, key, t)
        r == resolveImageID(defaultImage, useSIG, resp)
        used == IF useSIG THEN [NoResp EXCEPT !.versions = resp.versions]
                ELSE [NoResp EXCEPT !.pages = resp.pages]
    IN IF hit.found
       THEN Result("ok", NoErr, "", hit.Object, <<>>, <<>>, ic, kc, m, NoResp)
       ELSE IF r.err # NoErr
       THEN Result("err", r.err, "", "", r.calls, <<>>,
                   CacheSet(ic, key, "", imageExpirationInterval, t), kc, m, used)
       ELSE Result("ok", NoErr, "", r.id, r.calls, <<DiscoveredImage(r.id)>>,
                   CacheSet(ic, key, r.id, imageExpirationInterval, t), kc, m, used)

\* mutant: stores with the sweep interval as the time to live
GetLatestImageIDSweepTTL(defaultImage, useSIG, ic, kc, m, t, resp) ==
    LET key == LatestImageKey(defaultImage, useSIG)
        hit == CacheGet(ic, key, t)
        r == resolveImageID(defaultImage, useSIG, resp)
        used == IF useSIG THEN [NoResp EXCEPT !.versions = resp.versions]
                ELSE [NoResp EXCEPT !.pages = resp.pages]
    IN IF hit.found
       THEN Result("ok", NoErr, "", hit.Object, <<>>, <<>>, ic, kc, m, NoResp)
       ELSE IF r.err # NoErr
       THEN Result("err", r.err, "", "", r.calls, <<>>, ic, kc, m, used)
       ELSE Result("ok", NoErr, "", r.id, r.calls, <<DiscoveredImage(r.id)>>,
                   CacheSet(ic, key, r.id, imageCacheCleaningInterval, t), kc, m, used)

GetLatestImageID(defaultImage, useSIG, ic, kc, m, t, resp) ==
    LET key == LatestImageKey(defaultImage, useSIG)
        hit == CacheGet(ic, key, t)
        r == resolveImageID(defaultImage, useSIG, resp)
        used == IF useSIG THEN [NoResp EXCEPT !.versions = resp.versions]
                ELSE [NoResp EXCEPT !.pages = resp.pages]
    IN IF hit.found
       THEN Result("ok", NoErr, "", hit.Object, <<>>, <<>>, ic, kc, m, NoResp)
       ELSE IF r.err # NoErr
       THEN Result("err", r.err, "", "", r.calls, <<>>, ic, kc, m, used)
       ELSE Result("ok", NoErr, "", r.id, r.calls, <<DiscoveredImage(r.id)>>,
                   CacheSet(ic, key, r.id, imageExpirationInterval, t), kc, m, used)

----------------------------------------------------------------------------
(* Provider.GetCustomImageID (image.go:122-163) *)

\* mutant: the key stops at the image name
CustomImageKeyNoVersion(imageTerm) ==
    sharedImageGalleryImageIDFormat(imageTerm.GallerySubscriptionID,
        imageTerm.GalleryResourceGroupName, imageTerm.GalleryName,
        imageTerm.Name, "")

CustomImageKey(imageTerm) ==
    sharedImageGalleryImageIDFormat(imageTerm.GallerySubscriptionID,
        imageTerm.GalleryResourceGroupName, imageTerm.GalleryName,
        imageTerm.Name, imageTerm.Version)

\* mutant: every record replaces the candidate
NextGalleryCandidateLastSeen(imageCandidate, imageVersion) == imageVersion

\* image.go:151-153: one record against the current candidate
NextGalleryCandidate(imageCandidate, imageVersion) ==
    IF imageCandidate.ID.nil
       \/ After(imageVersion.PublishedDate, imageCandidate.PublishedDate)
    THEN imageVersion
    ELSE imageCandidate

RECURSIVE ScanGalleryPage(_, _, _)
ScanGalleryPage(value, i, cand) ==
    IF i > Len(value) THEN cand
    ELSE ScanGalleryPage(value, i + 1, NextGalleryCandidate(cand, value[i]))

\* image.go:145-155: the pager loop from page i on
RECURSIVE GalleryPagerLoop(_, _, _)
\* mutant: a failed page request is followed by the next request
GalleryPagerLoopRetries(pages, i, cand) ==
    IF i > Len(pages) THEN [err |-> NoErr, rec |-> cand, fetched |-> Len(pages)]
    ELSE IF pages[i].err # NoErr /\ i < Len(pages)
    THEN GalleryPagerLoop(pages, i + 1, cand)
    ELSE IF pages[i].err # NoErr
    THEN [err |-> pages[i].err, rec |-> ZeroGalleryVersion, fetched |-> i]
    ELSE GalleryPagerLoop(pages, i + 1, ScanGalleryPage(pages[i].Value, 1, cand))

GalleryPagerLoop(pages, i, cand) ==
    IF i > Len(pages) THEN [err |-> NoErr, rec |-> cand, fetched |-> Len(pages)]
    ELSE IF pages[i].err # NoErr
    THEN [err |-> pages[i].err, rec |-> ZeroGalleryVersion, fetched |-> i]
    ELSE GalleryPagerLoop(pages, i + 1, ScanGalleryPage(pages[i].Value, 1, cand))

\* mutant: the point lookup names the gallery where the resource group goes
CustomImageCandidateSwapped(imageTerm, resp) ==
    IF imageTerm.Version # ""
    THEN [err |-> resp.point.err,
          rec |-> resp.point.rec,
          calls |-> <<GalleryGetRequest(imageTerm.GallerySubscriptionID,
                        imageTerm.GalleryName, imageTerm.GalleryResourceGroupName,
                        imageTerm.Name, imageTerm.Version)>>]
    ELSE LET r == GalleryPagerLoop(resp.pages, 1, ZeroGalleryVersion)
         IN [err |-> r.err, rec |-> r.rec,
             calls |-> Repeat(GalleryListRequest(imageTerm.GallerySubscriptionID,
                                imageTerm.GalleryResourceGroupName,
                                imageTerm.GalleryName, imageTerm.Name), r.fetched)]

\* image.go:136-156: the candidate and the requests issued to find it
CustomImageCandidate(imageTerm, resp) ==
    IF imageTerm.Version # ""
    THEN [err |-> resp.point.err,
          rec |-> resp.point.rec,
          calls |-> <<GalleryGetRequest(imageTerm.GallerySubscriptionID,
                        imageTerm.GalleryResourceGroupName, imageTerm.GalleryName,
                        imageTerm.Name, imageTerm.Version)>>]
    ELSE LET r == GalleryPagerLoop(resp.pages, 1, ZeroGalleryVersion)
         IN [err |-> r.err, rec |-> r.rec,
             calls |-> Repeat(GalleryListRequest(imageTerm.GallerySubscriptionID,
                                imageTerm.GalleryResourceGroupName,
                                imageTerm.GalleryName, imageTerm.Name), r.fetched)]

\* mutant: the credential and the client are built before the cache is read
GetCustomImageIDCredentialFirst(imageTerm, ic, kc, m, t, resp) ==
    LET key == CustomImageKey(imageTerm)
        hit == CacheGet(ic, key, t)
        c == CustomImageCandidate(imageTerm, resp)
        id == c.rec.ID.v
        used == IF imageTerm.Version # ""
                THEN [NoResp EXCEPT !.point = resp.point]
                ELSE [NoResp EXCEPT !.pages = resp.pages]
    IN IF resp.cred # NoErr
       THEN Result("fatal", resp.cred, "", "", <<>>, <<>>, ic, kc, m,
                   [NoResp EXCEPT !.cred = resp.cred])
       ELSE IF resp.client # NoErr
       THEN Result("fatal", resp.client, "", "", <<>>, <<>>, ic, kc, m,
                   [NoResp EXCEPT !.client = resp.client])
       ELSE IF hit.found
       THEN Result("ok", NoErr, "", hit.Object, <<>>, <<>>, ic, kc, m, NoResp)
       ELSE IF c.err # NoErr
       THEN Result("err", c.err, "", "", c.calls, <<>>, ic, kc, m, used)
       ELSE IF c.rec.ID.nil
       THEN Result("panic", "nil pointer dereference", "", "", c.calls, <<>>,
                   ic, kc, m, used)
       ELSE Result("ok", NoErr, "", id, c.calls,
                   IF HasChanged(m, key, id) THEN <<DiscoveredImage(id)>> ELSE <<>>,
                   CacheSet(ic, key, id, imageExpirationInterval, t), kc,
                   Observe(m, key, id), used)

\* mutant: notifies at every resolution
GetCustomImageIDAlwaysNotifies(imageTerm, ic, kc, m, t, resp) ==
    LET key == CustomImageKey(imageTerm)
        hit == CacheGet(ic, key, t)
        c == CustomImageCandidate(imageTerm, resp)
        id == c.rec.ID.v
        used == IF imageTerm.Version # ""
                THEN [NoResp EXCEPT !.point = resp.point]
                ELSE [NoResp EXCEPT !.pages = resp.pages]
    IN IF hit.found
       THEN Result("ok", NoErr, "", hit.Object, <<>>, <<>>, ic, kc, m, NoResp)
       ELSE IF resp.cred # NoErr
       THEN Result("fatal", resp.cred, "", "", <<>>, <<>>, ic, kc, m,
                   [NoResp EXCEPT !.cred = resp.cred])
       ELSE IF resp.client # NoErr
       THEN Result("fatal", resp.client, "", "", <<>>, <<>>, ic, kc, m,
                   [NoResp EXCEPT !.client = resp.client])
       ELSE IF c.err # NoErr
       THEN Result("err", c.err, "", "", c.calls, <<>>, ic, kc, m, used)
       ELSE IF c.rec.ID.nil
       THEN Result("panic", "nil pointer dereference", "", "", c.calls, <<>>,
                   ic, kc, m, used)
       ELSE Result("ok", NoErr, "", id, c.calls, <<DiscoveredImage(id)>>,
                   CacheSet(ic, key, id, imageExpirationInterval, t), kc,
                   Observe(m, key, id), used)

\* mutant: stores the ID only when the change monitor reports a change
GetCustomImageIDStoreOnChange(imageTerm, ic, kc, m, t, resp) ==
    LET key == CustomImageKey(imageTerm)
        hit == CacheGet(ic, key, t)
        c == CustomImageCandidate(imageTerm, resp)
        id == c.rec.ID.v
        used == IF imageTerm.Version # ""
                THEN [NoResp EXCEPT !.point = resp.point]
                ELSE [NoResp EXCEPT !.pages = resp.pages]
    IN IF hit.found
       THEN Result("ok", NoErr, "", hit.Object, <<>>, <<>>, ic, kc, m, NoResp)
       ELSE IF resp.cred # NoErr
       THEN Result("fatal", resp.cred, "", "", <<>>, <<>>, ic, kc, m,
                   [NoResp EXCEPT !.cred = resp.cred])
       ELSE IF resp.client # NoErr
       THEN Result("fatal", resp.client, "", "", <<>>, <<>>, ic, kc, m,
                   [NoResp EXCEPT !.client = resp.client])
       ELSE IF c.err # NoErr
       THEN Result("err", c.err, "", "", c.calls, <<>>, ic, kc, m, used)
       ELSE IF c.rec.ID.nil
       THEN Result("panic", "nil pointer dereference", "", "", c.calls, <<>>,
                   ic, kc, m, used)
       ELSE IF HasChanged(m, key, id)
       THEN Result("ok", NoErr, "", id, c.calls, <<DiscoveredImage(id)>>,
                   CacheSet(ic, key, id, imageExpirationInterval, t), kc,
                   Observe(m, key, id), used)
       ELSE Result("ok", NoErr, "", id, c.calls, <<>>, ic, kc, m, used)

GetCustomImageID(imageTerm, ic, kc, m, t, resp) ==
    LET key == CustomImageKey(imageTerm)
        hit == CacheGet(ic, key, t)
        c == CustomImageCandidate(imageTerm, resp)
        id == c.rec.ID.v
        used == IF imageTerm.Version # ""
                THEN [NoResp EXCEPT !.point = resp.point]
                ELSE [NoResp EXCEPT !.pages = resp.pages]
    IN IF hit.found
       THEN Result("ok", NoErr, "", hit.Object, <<>>, <<>>, ic, kc, m, NoResp)
       ELSE IF resp.cred # NoErr      \* log.Fatalf
       THEN Result("fatal", resp.cred, "", "", <<>>, <<>>, ic, kc, m,
                   [NoResp EXCEPT !.cred = resp.cred])
       ELSE IF resp.client # NoErr    \* log.Fatalf
       THEN Result("fatal", resp.client, "", "", <<>>, <<>>, ic, kc, m,
                   [NoResp EXCEPT !.client = resp.client])
       ELSE IF c.err # NoErr
       THEN Result("err", c.err, "", "", c.calls, <<>>, ic, kc, m, used)
       ELSE IF c.rec.ID.nil           \* *imageCandidate.ID on a nil pointer
       THEN Result("panic", "nil pointer dereference", "", "", c.calls, <<>>,
                   ic, kc, m, used)
       ELSE Result("ok", NoErr, "", id, c.calls,
                   IF HasChanged(m, key, id) THEN <<DiscoveredImage(id)>> ELSE <<>>,
                   CacheSet(ic, key, id, imageExpirationInterval, t), kc,
                   Observe(m, key, id), used)

----------------------------------------------------------------------------
(* Provider.KubeServerVersion (image.go:165-179) *)

\* mutant: removes the prefix a second time where it is found again
TrimPrefixRepeated(s, prefix) ==
    LET once == IF Len(s) >= Len(prefix) /\ SubSeq(s, 1, Len(prefix)) = prefix
                THEN SubSeq(s, Len(prefix) + 1, Len(s))
                ELSE s
    IN IF Len(once) >= Len(prefix) /\ SubSeq(once, 1, Len(prefix)) = prefix
       THEN SubSeq(once, Len(prefix) + 1, Len(once))
       ELSE once

\* strings.TrimPrefix
TrimPrefix(s, prefix) ==
    IF Len(s) >= Len(prefix) /\ SubSeq(s, 1, Len(prefix)) = prefix
    THEN SubSeq(s, Len(prefix) + 1, Len(s))
    ELSE s

\* mutant: keeps the version in the image cache
KubeServerVersionInImageCache(ic, kc, m, t, resp) ==
    LET hit == CacheGet(ic, kubernetesVersionCacheKey, t)
        version == TrimPrefix(resp.serverVersion.GitVersion, "v")
        used == [NoResp EXCEPT !.serverVersion = resp.serverVersion]
    IN IF hit.found
       THEN Result("ok", NoErr, "", hit.Object, <<>>, <<>>, ic, kc, m, NoResp)
       ELSE IF resp.serverVersion.err # NoErr
       THEN Result("err", resp.serverVersion.err, "", "", <<ServerVersionRequest>>,
                   <<>>, ic, kc, m, used)
       ELSE Result("ok", NoErr, "", version, <<ServerVersionRequest>>,
                   IF HasChanged(m, "kubernetes-version", version)
                   THEN <<DiscoveredVersion(version)>> ELSE <<>>,
                   CacheSet(ic, kubernetesVersionCacheKey, version, KubernetesVersionTTL, t),
                   kc,
                   Observe(m, "kubernetes-version", version), used)

KubeServerVersion(ic, kc, m, t, resp) ==
    LET hit == CacheGet(kc, kubernetesVersionCacheKey, t)
        version == TrimPrefix(resp.serverVersion.GitVersion, "v")
        used == [NoResp EXCEPT !.serverVersion = resp.serverVersion]
    IN IF hit.found
       THEN Result("ok", NoErr, "", hit.Object, <<>>, <<>>, ic, kc, m, NoResp)
       ELSE IF resp.serverVersion.err # NoErr
       THEN Result("err", resp.serverVersion.err, "", "", <<ServerVersionRequest>>,
                   <<>>, ic, kc, m, used)
       ELSE Result("ok", NoErr, "", version, <<ServerVersionRequest>>,
                   IF HasChanged(m, "kubernetes-version", version)
                   THEN <<DiscoveredVersion(version)>> ELSE <<>>,
                   ic,
                   CacheSet(kc, kubernetesVersionCacheKey, version, KubernetesVersionTTL, t),
                   Observe(m, "kubernetes-version", version), used)

----------------------------------------------------------------------------
(* Provider.Get (image.go:77-99) *)

NoCompatibleImage(instanceTypeName) ==
    "no compatible images found for instance type " \o instanceTypeName

\* mutant: the term counts as unset when it names no gallery image
IsZeroTermIgnoringDistro(term) ==
    [term EXCEPT !.DistroName = ""] = ZeroCustomImageTerm

\* image.go:78
IsZeroTerm(term) == term = ZeroCustomImageTerm

\* mutant: falls back to the entry at hand when none is compatible
FirstCompatibleOrFallback(defaultImages, i, instanceType) ==
    LET S == {j \in i..Len(defaultImages) :
                 Compatible(instanceType.Requirements, defaultImages[j].Requirements)}
    IN IF S # {} THEN CHOOSE j \in S : \A k \in S : j <= k
       ELSE IF i <= Len(defaultImages) THEN i ELSE 0

\* mutant: the last compatible entry wins
FirstCompatibleLast(defaultImages, i, instanceType) ==
    LET S == {j \in i..Len(defaultImages) :
                 Compatible(instanceType.Requirements, defaultImages[j].Requirements)}
    IN IF S # {} THEN CHOOSE j \in S : \A k \in S : k <= j ELSE 0

\* image.go:80-81: index of the first compatible default image, 0 if none
RECURSIVE FirstCompatible(_, _, _)
FirstCompatible(defaultImages, i, instanceType) ==
    IF i > Len(defaultImages) THEN 0
    ELSE IF Compatible(instanceType.Requirements, defaultImages[i].Requirements) THEN i
    ELSE FirstCompatible(defaultImages, i + 1, instanceType)

\* image.go:82-83: the two locals are passed in the order (communityImageName,
\* publicGalleryURL) to getCIGImageID(publicGalleryURL, communityImageName)
GetDefaultImageID(defaultImage, pages) ==
    LET communityImageName == defaultImage.ImageDefinition
        publicGalleryURL == defaultImage.PublicGalleryURL
    IN getCIGImageID(communityImageName, publicGalleryURL, pages)

Get(term, instanceType, imageFamily, useSIG, ic, kc, m, t, resp) ==
    IF IsZeroTerm(term)
    THEN LET i == FirstCompatible(imageFamily, 1, instanceType)
             r == GetDefaultImageID(imageFamily[i], resp.pages)
             used == [NoResp EXCEPT !.pages = resp.pages]
         IN IF i = 0
            THEN Result("err", NoCompatibleImage(instanceType.Name), "", "", <<>>, <<>>,
                        ic, kc, m, NoResp)
            ELSE IF r.err # NoErr
            THEN Result("err", r.err, "", "", r.calls, <<>>, ic, kc, m, used)
            ELSE Result("ok", NoErr, imageFamily[i].Distro, r.id, r.calls, <<>>,
                        ic, kc, m, used)
    ELSE LET r == GetCustomImageID(term, ic, kc, m, t, resp)
         IN IF r.outcome = "ok"
            THEN [r EXCEPT !.distro = term.DistroName]
            ELSE r

----------------------------------------------------------------------------
(* The remote answers explored by the provider specification *)

CommunityV1 == CommunityVersion("2025.01.01", 1)
CommunityV2 == CommunityVersion("2025.02.01", 2)

CommunityListings ==
    { <<Page(<<CommunityV1>>), Page(<<CommunityV2>>)>>,
      <<Page(<<CommunityV2, CommunityV1>>)>>,
      <<Page(<<>>)>>,
      <<ErrPage("RemoteLookupFailure")>>,
      <<Page(<<CommunityV2>>), ErrPage("RemoteLookupFailure")>> }

NodeImageVersionLists ==
    { [err |-> "RemoteLookupFailure", Values |-> <<>>],
      [err |-> NoErr, Values |-> <<>>],
      [err |-> NoErr, Values |-> <<NodeImageVersion("2204gen2containerd", "2025.01.01")>>],
      [err |-> NoErr, Values |-> <<NodeImageVersion("2204gen2arm64containerd", "2025.01.01"),
                                   NodeImageVersion("2204gen2containerd", "2025.02.01")>>] }

\* the resource ID of a version of the term's gallery image
GalleryVersionID(imageTerm, version) ==
    sharedImageGalleryImageIDFormat(imageTerm.GallerySubscriptionID,
        imageTerm.GalleryResourceGroupName, imageTerm.GalleryName,
        imageTerm.Name, version)

GalleryV1(imageTerm) == GalleryVersion(Ptr(GalleryVersionID(imageTerm, "1.0.0")), 1)
GalleryV2(imageTerm) == GalleryVersion(Ptr(GalleryVersionID(imageTerm, "2.0.0")), 2)
GalleryNoID == GalleryVersion(NilPtr, 3)

GalleryPoints(imageTerm) ==
    { [err |-> "RemoteLookupFailure", rec |-> ZeroGalleryVersion],
      [err |-> NoErr, rec |-> GalleryV1(imageTerm)],
      [err |-> NoErr, rec |-> GalleryV2(imageTerm)],
      [err |-> NoErr, rec |-> GalleryNoID] }

GalleryListings(imageTerm) ==
    { <<Page(<<GalleryV1(imageTerm)>>), Page(<<GalleryV2(imageTerm)>>)>>,
      <<Page(<<GalleryV2(imageTerm), GalleryV1(imageTerm)>>)>>,
      <<Page(<<>>)>>,
      <<Page(<<GalleryNoID>>)>>,
      <<ErrPage("RemoteLookupFailure")>>,
      <<Page(<<GalleryV2(imageTerm)>>), ErrPage("RemoteLookupFailure")>> }

ServerVersions ==
    { [err |-> "RemoteLookupFailure", GitVersion |-> ""],
      [err |-> NoErr, GitVersion |-> "v1.24.9"],
      [err |-> NoErr, GitVersion |-> "1.24.9"] }

\* what may happen during a custom resolution for the term
CustomResps(imageTerm) ==
    {[NoResp EXCEPT !.cred = "CredentialFailure"],
     [NoResp EXCEPT !.client = "ClientConstructionFailure"]}
    \cup (IF imageTerm.Version # ""
          THEN {[NoResp EXCEPT !.point = p] : p \in GalleryPoints(imageTerm)}
          ELSE {[NoResp EXCEPT !.pages = l] : l \in GalleryListings(imageTerm)})

LatestResps(useSIG) ==
    IF useSIG THEN {[NoResp EXCEPT !.versions = v] : v \in NodeImageVersionLists}
    ELSE {[NoResp EXCEPT !.pages = l] : l \in CommunityListings}

GetResps(term) ==
    IF IsZeroTerm(term) THEN {[NoResp EXCEPT !.pages = l] : l \in CommunityListings}
    ELSE CustomResps(term)

VersionResps == {[NoResp EXCEPT !.serverVersion = v] : v \in ServerVersions}

CustomRespsOf == [t \in CustomImageTerms |-> CustomResps(t)]
GetRespsOf == [t \in CustomImageTerms |-> GetResps(t)]
LatestRespsOf == [b \in BOOLEAN |-> LatestResps(b)]

----------------------------------------------------------------------------
(* State machine *)

NoArgs ==
    [term |-> ZeroCustomImageTerm,
     instanceType |-> "",
     imageFamily |-> <<>>,
     defaultImage |-> CustomImagesDefaultImages[1],
     useSIG |-> FALSE]

NoCall ==
    [op |-> "none", at |-> 0, args |-> NoArgs, outcome |-> "none", err |-> NoErr,
     distro |-> "", id |-> "", calls |-> <<>>, logs |-> <<>>, resp |-> NoResp]

Init ==
    /\ now = 0
    /\ nCalls = 0
    /\ imageCache = EmptyCache
    /\ kubernetesVersionCache = EmptyCache
    /\ cm = EmptyMonitor
    /\ running = <<>>
    /\ last = NoCall

\* log.Fatalf ends the process
Alive == last.outcome # "fatal"

\* a caller may enter a method
CanCall == Alive /\ nCalls < MaxCalls

\* a method call completes with result r
Complete(op, args, r) ==
    /\ nCalls' = nCalls + 1
    /\ imageCache' = r.imageCache
    /\ kubernetesVersionCache' = r.kubernetesVersionCache
    /\ cm' = r.cm
    /\ last' = [op |-> op, at |-> now, args |-> args, outcome |-> r.outcome, err |-> r.err,
                distro |-> r.distro, id |-> r.id, calls |-> r.calls,
                logs |-> r.logs, resp |-> r.resp]
    /\ UNCHANGED <<now, running>>

\* options.FromContext(ctx).UseSIG of the calls to Get: both values where a
\* default image is resolved, one where the custom term is
GetFlags(term) == IF IsZeroTerm(term) THEN BOOLEAN ELSE {FALSE}

\* the remote side answers only what is asked, so the answers are told apart
\* by the results they lead to
GetCall ==
    /\ CanCall
    /\ \E term \in CustomImageTerms, instanceType \in InstanceTypes,
          imageFamily \in ImageFamilies :
        \E useSIG \in GetFlags(term) :
        \E r \in {Get(term, instanceType, imageFamily, useSIG,
                      imageCache, kubernetesVersionCache, cm, now, resp) :
                  resp \in GetRespsOf[term]} :
            Complete("Get",
                [NoArgs EXCEPT !.term = term, !.instanceType = instanceType.Name,
                               !.imageFamily = imageFamily, !.useSIG = useSIG],
                r)

GetLatestImageIDCall ==
    /\ CanCall
    /\ \E defaultImage \in DefaultImageOutputs, useSIG \in BOOLEAN :
        \E r \in {GetLatestImageID(defaultImage, useSIG,
                      imageCache, kubernetesVersionCache, cm, now, resp) :
                  resp \in LatestRespsOf[useSIG]} :
            Complete("GetLatestImageID",
                [NoArgs EXCEPT !.defaultImage = defaultImage, !.useSIG = useSIG],
                r)

GetCustomImageIDCall ==
    /\ CanCall
    /\ \E imageTerm \in CustomImageTerms \ {ZeroCustomImageTerm} :
        \E r \in {GetCustomImageID(imageTerm,
                      imageCache, kubernetesVersionCache, cm, now, resp) :
                  resp \in CustomRespsOf[imageTerm]} :
            Complete("GetCustomImageID", [NoArgs EXCEPT !.term = imageTerm], r)

KubeServerVersionCall ==
    /\ CanCall
    /\ \E r \in {KubeServerVersion(imageCache, kubernetesVersionCache, cm, now, resp) :
              resp \in VersionResps} :
        Complete("KubeServerVersion", NoArgs, r)

\* the clock is observed every half expiration interval
TickStep == imageExpirationInterval \div 2

Tick ==
    /\ Alive
    /\ now < MaxTicks * TickStep
    /\ now' = now + TickStep
    /\ UNCHANGED <<nCalls, imageCache, kubernetesVersionCache, cm, last, running>>

\* the image cache's janitor, every imageCacheCleaningInterval
Janitor ==
    /\ Alive
    /\ now % imageCacheCleaningInterval = 0
    /\ imageCache' = DeleteExpired(imageCache, now)
    /\ UNCHANGED <<now, nCalls, kubernetesVersionCache, cm, last, running>>

Next ==
    \/ GetCall
    \/ GetLatestImageIDCall
    \/ GetCustomImageIDCall
    \/ KubeServerVersionCall
    \/ Tick
    \/ Janitor

Spec == Init /\ [][Next]_vars

----------------------------------------------------------------------------
(* Vocabulary of the properties *)

\* this step is the completion of a method call
IsCall == nCalls' = nCalls + 1

CatalogAPIs == {"CommunityGalleryImageVersions.List", "NodeImageVersions.List"}
GalleryAPIs == {"GalleryImageVersions.Get", "GalleryImageVersions.ListByGalleryImage"}

APIsOf(calls) == {calls[i].api : i \in 1..Len(calls)}

\* every field of the term is empty
AllFieldsEmpty(term) == \A f \in DOMAIN term : term[f] = ""

\* the descriptor of the family that Get's default path resolves: the first
\* one, in declared order, the instance type is compatible with
MatchedEntries(imageFamily, instanceTypeName) ==
    {i \in 1..Len(imageFamily) :
        /\ \E it \in InstanceTypes :
            it.Name = instanceTypeName /\ Compatible(it.Requirements, imageFamily[i].Requirements)
        /\ \A j \in 1..(i - 1) : \A it \in InstanceTypes :
            it.Name = instanceTypeName => ~Compatible(it.Requirements, imageFamily[j].Requirements)}

----------------------------------------------------------------------------
\* C1: Get takes the default-catalog path exactly when every field of the
\* custom image term is empty.  With an empty term the call either fails
\* with the no-compatible-image error or asks a catalog API and no other; with
\* any other term it asks no catalog API, its outcome is that of
\* GetCustomImageID for the term on the same state and answers, and a
\* returned pair is (term.DistroName, that ID), whatever the instance type
\* and image family are.
C1_GetPathFromTerm ==
    [][ (IsCall /\ last'.op = "Get") =>
          LET term == last'.args.term
              custom == GetCustomImageID(term, imageCache, kubernetesVersionCache,
                                         cm, now, last'.resp)
          IN IF AllFieldsEmpty(term)
             THEN /\ \/ last'.err = NoCompatibleImage(last'.args.instanceType)
                     \/ /\ last'.calls # <<>>
                        /\ APIsOf(last'.calls) \subseteq CatalogAPIs
             ELSE /\ APIsOf(last'.calls) \cap CatalogAPIs = {}
                  /\ last'.err # NoCompatibleImage(last'.args.instanceType)
                  /\ last'.outcome = custom.outcome
                  /\ last'.err = custom.err
                  /\ last'.id = custom.id
                  /\ last'.calls = custom.calls
                  /\ imageCache' = custom.imageCache /\ cm' = custom.cm
                  /\ last'.outcome = "ok" => last'.distro = term.DistroName
      ]_vars

\* C1 witness: a node class whose term sets only DistroName got its image
\* through the custom path, with an image family whose entry is compatible
C1_Witness ==
    /\ last.op = "Get"
    /\ last.args.term = DistroOnlyCustomImageTerm
    /\ last.args.imageFamily = Ubuntu2204DefaultImages
    /\ last.args.instanceType = "Standard_D2s_v3"
    /\ last.outcome = "ok"
    /\ last.distro = DistroOnlyCustomImageTerm.DistroName
    /\ APIsOf(last.calls) = {"GalleryImageVersions.ListByGalleryImage"}

----------------------------------------------------------------------------
HasPrefix(str, prefix) ==
    Len(str) >= Len(prefix) /\ SubSeq(str, 1, Len(prefix)) = prefix

\* the last call is a Get that resolved a default image of its family
IsDefaultResolution(l) ==
    /\ l.op = "Get"
    /\ AllFieldsEmpty(l.args.term)
    /\ MatchedEntries(l.args.imageFamily, l.args.instanceType) # {}
    /\ l.outcome \in {"ok", "err"}

MatchedEntry(l) ==
    l.args.imageFamily[CHOOSE i \in MatchedEntries(l.args.imageFamily, l.args.instanceType) : TRUE]

\* C2: on the default path of Get the matched descriptor is resolved by the
\* shared gallery resolver when UseSIG is set and by the community gallery
\* resolver when it is not: the requests go to the version-list API or to the
\* community listing accordingly, and a returned pair is the matched entry's
\* distro with an ID of the selected gallery.
C2_GetBackendFromFlag ==
    IsDefaultResolution(last) =>
        /\ APIsOf(last.calls) =
              (IF last.args.useSIG THEN {"NodeImageVersions.List"}
               ELSE {"CommunityGalleryImageVersions.List"})
        /\ last.outcome = "ok" =>
              /\ last.distro = MatchedEntry(last).Distro
              /\ HasPrefix(last.id,
                    IF last.args.useSIG
                    THEN "/subscriptions/" \o SIGSubscriptionID \o "/resourceGroups/"
                    ELSE "/CommunityGalleries/")

\* C3: a Get that follows a successful Get with the same node class,
\* instance type, image family and context within the expiration interval
\* returns the same (distro, image ID) and issues no remote request.
C3_GetIdempotent ==
    [][ (/\ IsCall
         /\ last.op = "Get" /\ last.outcome = "ok"
         /\ last'.op = "Get" /\ last'.args = last.args
         /\ now - last.at < imageExpirationInterval)
        => /\ last'.outcome = "ok"
           /\ last'.distro = last.distro
           /\ last'.id = last.id
           /\ last'.calls = <<>>
      ]_vars

\* C7: a default descriptor resolved by Get through the community gallery is
\* listed as (location, PublicGalleryURL, ImageDefinition), and the returned
\* ID is /CommunityGalleries/<PublicGalleryURL>/images/<ImageDefinition>/
\* versions/<latest listed version>, the ID GetLatestImageID returns for the
\* descriptor in community mode.
C7_GetCommunityID ==
    (IsDefaultResolution(last) /\ "CommunityGalleryImageVersions.List" \in APIsOf(last.calls)) =>
        LET d == MatchedEntry(last)
            latest == GetLatestImageID(d, FALSE, EmptyCache, EmptyCache, EmptyMonitor,
                                       last.at, last.resp)
        IN /\ \A i \in 1..Len(last.calls) :
                last.calls[i] = CommunityListRequest(location, d.PublicGalleryURL,
                                                     d.ImageDefinition)
           /\ last.outcome = "ok" =>
                /\ HasPrefix(last.id,
                      "/CommunityGalleries/" \o d.PublicGalleryURL \o "/images/"
                          \o d.ImageDefinition \o "/versions/")
                /\ last.id = latest.id

----------------------------------------------------------------------------
\* the key a GetLatestImageID call with these arguments looks up
KeyOfLatest(args) ==
    IF args.useSIG
    THEN args.defaultImage.GalleryName \o "/" \o args.defaultImage.ImageDefinition
    ELSE args.defaultImage.PublicGalleryURL \o "/" \o args.defaultImage.ImageDefinition

\* the key a GetCustomImageID call with these arguments looks up
KeyOfCustom(args) ==
    "/subscriptions/" \o args.term.GallerySubscriptionID
        \o "/resourceGroups/" \o args.term.GalleryResourceGroupName
        \o "/providers/Microsoft.Compute/galleries/" \o args.term.GalleryName
        \o "/images/" \o args.term.Name \o "/versions/" \o args.term.Version

\* c holds an entry under k whose time to live has not elapsed at time t
Live(c, k, t) == k \in DOMAIN c /\ t < c[k].Expiration

\* C4: a GetLatestImageID call that finds, under its key, an entry stored
\* less than the expiration interval ago returns exactly the stored ID and
\* issues no remote request, whatever the remote catalog holds by then; a
\* call that finds none and succeeds stores the ID it returns under the key.
\* So of two successive calls for one shared-gallery key, the second less
\* than the interval after the first stored its result, the first issues
\* one version-list request and the second none.
C4_LatestServedFromCache ==
    [][ (IsCall /\ last'.op = "GetLatestImageID") =>
          LET key == KeyOfLatest(last'.args)
          IN /\ Live(imageCache, key, now) =>
                  /\ last'.outcome = "ok"
                  /\ last'.id = imageCache[key].Object
                  /\ last'.calls = <<>>
                  /\ imageCache' = imageCache
             /\ (~Live(imageCache, key, now) /\ last'.outcome = "ok") =>
                  /\ Live(imageCache', key, now)
                  /\ imageCache'[key].Object = last'.id
             /\ last'.args.useSIG => Len(last'.calls) <= 1
             /\ (/\ last.op = "GetLatestImageID" /\ last.outcome = "ok"
                 /\ last.calls # <<>>
                 /\ last.args = last'.args
                 /\ now - last.at < imageExpirationInterval)
                => /\ last'.outcome = "ok" /\ last'.id = last.id
                   /\ last'.calls = <<>>
      ]_vars

\* C4 witness: half an expiration interval after the first call, a second
\* call for the same shared-gallery key was answered without a request
C4_Witness ==
    /\ last.op = "GetLatestImageID"
    /\ last.args.useSIG
    /\ nCalls = 2
    /\ last.at = TickStep
    /\ last.outcome = "ok"
    /\ last.calls = <<>>
    /\ imageCache[KeyOfLatest(last.args)].Expiration = imageExpirationInterval

----------------------------------------------------------------------------
\* the methods that keep what they resolve
CachingOps == {"GetLatestImageID", "GetCustomImageID", "KubeServerVersion"}

\* the cache a call of method op reads, as found in caches ic and kc
CacheOfOp(op, ic, kc) == IF op = "KubeServerVersion" THEN kc ELSE ic

\* the key a call of method op with these arguments reads
KeyOfOp(op, args) ==
    IF op = "GetLatestImageID" THEN KeyOfLatest(args)
    ELSE IF op = "GetCustomImageID" THEN KeyOfCustom(args)
    ELSE "kubernetesVersion"

\* C5: a call of GetLatestImageID, GetCustomImageID or KubeServerVersion that
\* returns an error leaves both caches exactly as they were and its key
\* without a live entry (nothing is remembered about the failure); a call
\* that finds no live entry under its key sends a remote request, unless the
\* process ends while building the credential or the client; so the call for
\* the same key that follows a failed one goes to the remote side again.
C5_FailureNotCached ==
    [][ (IsCall /\ last'.op \in CachingOps) =>
          LET key == KeyOfOp(last'.op, last'.args)
          IN /\ last'.outcome = "err" =>
                  /\ imageCache' = imageCache
                  /\ kubernetesVersionCache' = kubernetesVersionCache
                  /\ ~Live(CacheOfOp(last'.op, imageCache', kubernetesVersionCache'),
                           key, now)
                  /\ last'.calls # <<>>
             /\ (/\ ~Live(CacheOfOp(last'.op, imageCache, kubernetesVersionCache),
                          key, now)
                 /\ last'.outcome # "fatal")
                => last'.calls # <<>>
             /\ (/\ last.outcome = "err" /\ last.op = last'.op
                 /\ KeyOfOp(last.op, last.args) = key
                 /\ last'.outcome # "fatal")
                => last'.calls # <<>>
      ]_vars

\* C5 witness: after one lookup was stored, a lookup with an unexpired
\* neighbour in the cache failed at the remote side
C5_Witness ==
    /\ last.op \in CachingOps
    /\ last.outcome = "err"
    /\ last.calls # <<>>
    /\ nCalls = 2
    /\ imageCache # EmptyCache
    /\ \E k \in DOMAIN imageCache : Live(imageCache, k, now)

----------------------------------------------------------------------------
\* C6: an image ID stored by GetLatestImageID at time t carries the
\* expiration interval T: the entry written expires at t + T.  A call for
\* its key at a time before t + T is answered from the entry; a call at
\* t + T or later sends a remote request, whether the expired entry is still
\* in the table or the sweep has removed it, and on success replaces it by
\* an entry expiring T after that call.
C6_ExpiryByTTL ==
    [][ (IsCall /\ last'.op = "GetLatestImageID") =>
          LET key == KeyOfLatest(last'.args)
              stored == key \in DOMAIN imageCache
                        /\ now < imageCache[key].Expiration
          IN /\ stored =>
                  /\ last'.id = imageCache[key].Object
                  /\ last'.calls = <<>>
                  /\ imageCache'[key] = imageCache[key]
             /\ ~stored =>
                  /\ last'.calls # <<>>
                  /\ last'.outcome = "ok" =>
                        imageCache'[key] =
                            [Object |-> last'.id,
                             Expiration |-> now + imageExpirationInterval]
                  /\ last'.outcome # "ok" => imageCache' = imageCache
      ]_vars

\* C6 witness: a call made a full expiration interval after the first one
\* resolved the image again and stored it with a new expiry
C6_Witness ==
    /\ last.op = "GetLatestImageID"
    /\ nCalls = 2
    /\ last.at = imageExpirationInterval
    /\ last.outcome = "ok"
    /\ last.calls # <<>>
    /\ imageCache[KeyOfLatest(last.args)].Expiration = 2 * imageExpirationInterval

----------------------------------------------------------------------------
(* The community resolver on its own: every listing of up to MaxPages      *)
(* pages of up to MaxPageLen records each, any page possibly failing       *)

\* a build republished last under an older name
CommunityV3 == CommunityVersion("2024.12.01", 3)

CommunityRecords == {CommunityV1, CommunityV2, CommunityV3}

InitCommunity ==
    /\ now = 0
    /\ nCalls = 0
    /\ imageCache = EmptyCache
    /\ kubernetesVersionCache = EmptyCache
    /\ cm = EmptyMonitor
    /\ running = <<>>
    /\ \E pages \in ListingsOver(PagesOver(CommunityRecords, MaxPageLen), MaxPages) :
           last = [NoCall EXCEPT !.op = "listing", !.resp.pages = pages]

ResolveCommunity ==
    /\ last.op = "listing"
    /\ \E d \in DefaultImageOutputs :
        LET r == latestNodeImageVersionCommunity(d.PublicGalleryURL, d.ImageDefinition,
                                                 last.resp.pages)
        IN last' = [last EXCEPT !.op = "latestNodeImageVersionCommunity",
                                !.args.defaultImage = d,
                                !.outcome = IF r.err = NoErr THEN "ok" ELSE "err",
                                !.err = r.err, !.id = r.Name, !.calls = r.calls]
    /\ UNCHANGED <<now, nCalls, imageCache, kubernetesVersionCache, cm, running>>

NextCommunity == ResolveCommunity

SpecCommunity == InitCommunity /\ [][NextCommunity]_vars

\* the records of a listing, page after page
RECURSIVE RecordsOf(_, _)
RecordsOf(pages, i) ==
    IF i > Len(pages) THEN <<>> ELSE pages[i].Value \o RecordsOf(pages, i + 1)

\* C8: whenever no page fails and the pages together hold at least one
\* record and no two records with the same publish timestamp, in whatever
\* order and however split over pages (empty pages included),
\* latestNodeImageVersionCommunity fetches every page and returns the name
\* of the record with the greatest publish timestamp.
C8_CommunityPicksMaximum ==
    (last.op = "latestNodeImageVersionCommunity") =>
        LET pages == last.resp.pages
            recs == RecordsOf(pages, 1)
            distinct == \A i, j \in 1..Len(recs) :
                            i # j => recs[i].PublishedDate # recs[j].PublishedDate
        IN (/\ \A i \in 1..Len(pages) : pages[i].err = NoErr
            /\ Len(recs) > 0
            /\ distinct)
           => /\ last.err = NoErr
              /\ Len(last.calls) = Len(pages)
              /\ \E i \in 1..Len(recs) :
                    /\ \A j \in 1..Len(recs) :
                           recs[j].PublishedDate <= recs[i].PublishedDate
                    /\ last.id = recs[i].Name.v

\* C8 witness: the three records over two pages, the newest listed first
C8_Witness ==
    /\ last.op = "latestNodeImageVersionCommunity"
    /\ last.resp.pages = <<Page(<<CommunityV3, CommunityV1>>), Page(<<CommunityV2>>)>>
    /\ last.id = "2024.12.01"
    /\ Len(last.calls) = 2

----------------------------------------------------------------------------
(* The shared gallery resolver on its own: every answer of                 *)
(* NodeImageVersions.List with up to MaxVersions records                   *)

NodeImageRecords ==
    { NodeImageVersion("2204gen2containerd", "202501.01.0"),
      NodeImageVersion("2204gen2containerd", "202502.01.0"),
      NodeImageVersion("2204gen2arm64containerd", "202501.01.0"),
      NodeImageVersion("2004gen2containerd", "202503.01.0") }

NodeImageAnswers ==
    {[err |-> NoErr, Values |-> v] : v \in SeqsUpTo(NodeImageRecords, MaxVersions)}
        \cup {[err |-> e, Values |-> <<>>] : e \in RemoteErrors}

InitSIG ==
    /\ now = 0
    /\ nCalls = 0
    /\ imageCache = EmptyCache
    /\ kubernetesVersionCache = EmptyCache
    /\ cm = EmptyMonitor
    /\ running = <<>>
    /\ \E versions \in NodeImageAnswers :
           last = [NoCall EXCEPT !.op = "versions", !.resp.versions = versions]

ResolveSIG ==
    /\ last.op = "versions"
    /\ \E imgStub \in DefaultImageOutputs :
        LET r == getSIGImageID(imgStub, last.resp.versions)
        IN last' = [last EXCEPT !.op = "getSIGImageID",
                                !.args.defaultImage = imgStub,
                                !.outcome = IF r.err = NoErr THEN "ok" ELSE "err",
                                !.err = r.err, !.id = r.id, !.calls = r.calls]
    /\ UNCHANGED <<now, nCalls, imageCache, kubernetesVersionCache, cm, running>>

NextSIG == ResolveSIG

SpecSIG == InitSIG /\ [][NextSIG]_vars

\* C9: getSIGImageID asks once for the versions of (location, subscription);
\* when the answer holds exactly one record whose SKU is the descriptor's
\* image definition, the result is the path /subscriptions/<gallery
\* subscription>/resourceGroups/<gallery resource group>/providers/
\* Microsoft.Compute/galleries/<gallery name>/images/<image definition>/
\* versions/<that record's version>; when it holds none, the call fails with
\* "failed to get the latest version of the image <image definition>" and
\* returns no ID.
C9_SharedGalleryMatch ==
    (last.op = "getSIGImageID") =>
        LET d == last.args.defaultImage
            values == last.resp.versions.Values
            matches == {i \in 1..Len(values) : values[i].SKU = d.ImageDefinition}
        IN /\ last.calls = <<[api |-> "NodeImageVersions.List",
                              args |-> <<"eastus", "sub-cluster">>]>>
           /\ (last.resp.versions.err = NoErr /\ Cardinality(matches) = 1) =>
                 /\ last.err = NoErr
                 /\ \A i \in matches :
                       last.id = "/subscriptions/" \o "sub-sig"
                                 \o "/resourceGroups/" \o d.GalleryResourceGroup
                                 \o "/providers/Microsoft.Compute/galleries/" \o d.GalleryName
                                 \o "/images/" \o d.ImageDefinition
                                 \o "/versions/" \o values[i].Version
           /\ (last.resp.versions.err = NoErr /\ matches = {}) =>
                 /\ last.err = "failed to get the latest version of the image "
                               \o d.ImageDefinition
                 /\ last.id = ""

\* C9 witness: the one matching record is the last of three
C9_Witness ==
    /\ last.op = "getSIGImageID"
    /\ last.args.defaultImage.ImageDefinition = "2204gen2arm64containerd"
    /\ Len(last.resp.versions.Values) = 3
    /\ last.resp.versions.Values[1].SKU = "2204gen2containerd"
    /\ last.resp.versions.Values[2].SKU = "2004gen2containerd"
    /\ last.resp.versions.Values[3].SKU = "2204gen2arm64containerd"
    /\ last.id = "/subscriptions/sub-sig/resourceGroups/AKS-Ubuntu/providers/Microsoft.Compute/galleries/AKSUbuntu/images/2204gen2arm64containerd/versions/202501.01.0"

----------------------------------------------------------------------------
\* C10: a GetCustomImageID call for a term with a version never lists the
\* gallery image's versions; when its key has no live cache entry (and the
\* credential and the client are built) it sends exactly one request, the
\* point lookup of (resource group, gallery, image name, version) of the
\* term under the term's subscription; an error of that lookup is returned
\* as it is, with no ID; a record with an ID is answered by that ID.
C10_PinnedPointLookup ==
    [][ (/\ IsCall /\ last'.op = "GetCustomImageID"
         /\ last'.args.term.Version # "") =>
          LET term == last'.args.term
              point == last'.resp.point
          IN /\ \A i \in 1..Len(last'.calls) :
                    last'.calls[i].api # "GalleryImageVersions.ListByGalleryImage"
             /\ (~Live(imageCache, KeyOfCustom(last'.args), now)
                 /\ last'.outcome # "fatal") =>
                  /\ last'.calls =
                        <<[api |-> "GalleryImageVersions.Get",
                           args |-> <<term.GallerySubscriptionID,
                                      term.GalleryResourceGroupName, term.GalleryName,
                                      term.Name, term.Version>>]>>
                  /\ point.err # NoErr =>
                        /\ last'.outcome = "err"
                        /\ last'.err = point.err
                        /\ last'.id = ""
                  /\ (point.err = NoErr /\ ~point.rec.ID.nil) =>
                        /\ last'.outcome = "ok"
                        /\ last'.id = point.rec.ID.v
      ]_vars

\* C10 witness: the pinned term was looked up once and the record the
\* lookup yielded, whose ID is not the term's own path, was returned
C10_Witness ==
    /\ last.op = "GetCustomImageID"
    /\ last.args.term = PinnedCustomImageTerm
    /\ last.outcome = "ok"
    /\ Len(last.calls) = 1
    /\ last.calls[1].api = "GalleryImageVersions.Get"
    /\ last.id = GalleryVersionID(PinnedCustomImageTerm, "2.0.0")
    /\ last.id # KeyOfCustom(last.args)

----------------------------------------------------------------------------
(* The custom resolver's latest mode on its own: GetCustomImageID on an    *)
(* empty cache, for every listing of up to MaxPages pages of up to         *)
(* MaxPageLen records each, any page possibly failing                      *)

\* a fix of an older line published last
GalleryV3(imageTerm) == GalleryVersion(Ptr(GalleryVersionID(imageTerm, "0.9.0")), 3)

GalleryRecords ==
    { GalleryV1(LatestCustomImageTerm), GalleryV2(LatestCustomImageTerm),
      GalleryV3(LatestCustomImageTerm) }

LatestTerms == {t \in CustomImageTerms : t.Version = "" /\ ~IsZeroTerm(t)}

InitCustomLatest ==
    /\ now = 0
    /\ nCalls = 0
    /\ imageCache = EmptyCache
    /\ kubernetesVersionCache = EmptyCache
    /\ cm = EmptyMonitor
    /\ running = <<>>
    /\ \E pages \in ListingsOver(PagesOver(GalleryRecords, MaxPageLen), MaxPages) :
           last = [NoCall EXCEPT !.op = "listing", !.resp.pages = pages]

ResolveCustomLatest ==
    /\ last.op = "listing"
    /\ \E imageTerm \in LatestTerms :
           Complete("GetCustomImageID", [NoArgs EXCEPT !.term = imageTerm],
                    GetCustomImageID(imageTerm, imageCache, kubernetesVersionCache, cm, now,
                                     [NoResp EXCEPT !.pages = last.resp.pages]))

NextCustomLatest == ResolveCustomLatest

SpecCustomLatest == InitCustomLatest /\ [][NextCustomLatest]_vars

\* C11: GetCustomImageID for a term without a version, finding nothing
\* cached, pages through the listing of the term's gallery image and never
\* sends a point lookup; whenever no page fails and the pages together hold
\* at least one record, every record with an ID and no two with the same
\* publish timestamp, in whatever order and however split over pages, it
\* returns the ID of the record with the latest publish timestamp.
C11_CustomLatestPicksMaximum ==
    (last.op = "GetCustomImageID") =>
        LET term == last.args.term
            pages == last.resp.pages
            recs == RecordsOf(pages, 1)
        IN /\ Len(last.calls) >= 1
           /\ \A i \in 1..Len(last.calls) :
                 last.calls[i] =
                     [api |-> "GalleryImageVersions.ListByGalleryImage",
                      args |-> <<term.GallerySubscriptionID, term.GalleryResourceGroupName,
                                 term.GalleryName, term.Name>>]
           /\ (/\ \A i \in 1..Len(pages) : pages[i].err = NoErr
               /\ Len(recs) > 0
               /\ \A i \in 1..Len(recs) : ~recs[i].ID.nil
               /\ \A i, j \in 1..Len(recs) :
                      i # j => recs[i].PublishedDate # recs[j].PublishedDate)
              => /\ last.outcome = "ok"
                 /\ Len(last.calls) = Len(pages)
                 /\ \E i \in 1..Len(recs) :
                       /\ \A j \in 1..Len(recs) :
                              recs[j].PublishedDate <= recs[i].PublishedDate
                       /\ last.id = recs[i].ID.v

\* C11 witness: three versions over two pages, the latest listed first
C11_Witness ==
    /\ last.op = "GetCustomImageID"
    /\ last.args.term = LatestCustomImageTerm
    /\ last.resp.pages = <<Page(<<GalleryV3(LatestCustomImageTerm),
                                  GalleryV1(LatestCustomImageTerm)>>),
                           Page(<<GalleryV2(LatestCustomImageTerm)>>)>>
    /\ last.id = GalleryVersionID(LatestCustomImageTerm, "0.9.0")
    /\ Len(last.calls) = 2

----------------------------------------------------------------------------
(* Get's default path over catalogs of every shape: empty, with no         *)
(* compatible entry, with several compatible entries.  GetLatestImageID    *)
(* and KubeServerVersion calls fill the caches around it.                  *)

\* the Ubuntu2204 entries for both Hyper-V generations, preferred first
Ubuntu2204AllGenerations ==
    << Ubuntu2204DefaultImages[1],
       [Ubuntu2204DefaultImages[1] EXCEPT
            !.ImageDefinition = "2204containerd",
            !.Distro = "aks-ubuntu-containerd-22.04",
            !.Requirements = [arch |-> {ArchitectureAmd64},
                              hvgen |-> {HyperVGenerationV1}]],
       Ubuntu2204DefaultImages[2] >>

\* the same entries declared in another order
Ubuntu2204Reordered ==
    << Ubuntu2204AllGenerations[3], Ubuntu2204AllGenerations[2],
       Ubuntu2204AllGenerations[1] >>

CatalogFamilies ==
    ImageFamilies \cup {<<>>, Ubuntu2204AllGenerations, Ubuntu2204Reordered}

\* an instance type that runs both Hyper-V generations, beside the others
CatalogInstanceTypes ==
    InstanceTypes \cup
    { [Name |-> "Standard_D2_v2",
       Requirements |-> [arch |-> {ArchitectureAmd64},
                         hvgen |-> {HyperVGenerationV1, HyperVGenerationV2}]] }

GetCatalogCall ==
    /\ CanCall
    /\ \E instanceType \in CatalogInstanceTypes, imageFamily \in CatalogFamilies,
          useSIG \in BOOLEAN :
        \E r \in {Get(ZeroCustomImageTerm, instanceType, imageFamily, useSIG,
                      imageCache, kubernetesVersionCache, cm, now, resp) :
                  resp \in GetRespsOf[ZeroCustomImageTerm]} :
            Complete("Get",
                [NoArgs EXCEPT !.instanceType = instanceType.Name,
                               !.imageFamily = imageFamily, !.useSIG = useSIG],
                r)

NextCatalog ==
    \/ GetCatalogCall
    \/ GetLatestImageIDCall
    \/ KubeServerVersionCall

SpecCatalog == Init /\ [][NextCatalog]_vars

\* the entries of the catalog that share a value of every label with the
\* instance type of that name
CompatibleEntries(imageFamily, instanceTypeName) ==
    {i \in 1..Len(imageFamily) :
        \E it \in CatalogInstanceTypes :
            /\ it.Name = instanceTypeName
            /\ \E a \in it.Requirements.arch : a \in imageFamily[i].Requirements.arch
            /\ \E g \in it.Requirements.hvgen : g \in imageFamily[i].Requirements.hvgen}

\* C12: a Get call with an unset custom image term, for an instance type no
\* entry of the catalog is compatible with (an empty catalog included),
\* returns the error "no compatible images found for instance type <name>"
\* with the instance type's name and an empty distro and ID, sends no remote
\* request and leaves both caches as they were.
C12_NoCompatibleImage ==
    [][ (/\ IsCall /\ last'.op = "Get"
         /\ AllFieldsEmpty(last'.args.term)
         /\ CompatibleEntries(last'.args.imageFamily, last'.args.instanceType) = {})
        => /\ last'.outcome = "err"
           /\ last'.err = "no compatible images found for instance type "
                          \o last'.args.instanceType
           /\ last'.distro = "" /\ last'.id = ""
           /\ last'.calls = <<>>
           /\ imageCache' = imageCache
           /\ kubernetesVersionCache' = kubernetesVersionCache
      ]_vars

\* C12 witness: with an image already cached, an arm64 instance type found
\* no compatible entry in a catalog that has entries
C12_Witness ==
    /\ last.op = "Get"
    /\ last.args.instanceType = "Standard_D2ps_v5"
    /\ last.args.imageFamily = CustomImagesDefaultImages
    /\ last.err = "no compatible images found for instance type Standard_D2ps_v5"
    /\ nCalls = 2
    /\ imageCache # EmptyCache

\* C12 witness of the empty catalog
C12_WitnessEmptyCatalog ==
    /\ last.op = "Get"
    /\ last.args.imageFamily = <<>>
    /\ last.err = "no compatible images found for instance type Standard_D2_v2"

----------------------------------------------------------------------------
\* the values a request names, in whatever position
NamedBy(call) == {call.args[k] : k \in 1..Len(call.args)}

\* C17: a Get call with an unset custom image term resolves the first entry,
\* in declared catalog order, that is compatible with the instance type,
\* also when later entries are compatible too: every request it sends names
\* that entry's gallery and image definition, a success carries that entry's
\* distro, and a failure of that resolution is returned as it is, after no
\* more requests than pages were answered and none for a later entry.
C17_FirstCompatibleEntry ==
    [][ (/\ IsCall /\ last'.op = "Get"
         /\ AllFieldsEmpty(last'.args.term)
         /\ CompatibleEntries(last'.args.imageFamily, last'.args.instanceType) # {})
        => LET family == last'.args.imageFamily
               S == CompatibleEntries(family, last'.args.instanceType)
               first == CHOOSE i \in S : \A j \in S : i <= j
               pages == last'.resp.pages
               failed == {i \in 1..Len(pages) : pages[i].err # NoErr}
           IN /\ last'.calls # <<>>
              /\ \A k \in 1..Len(last'.calls) :
                    /\ family[first].ImageDefinition \in NamedBy(last'.calls[k])
                    /\ family[first].PublicGalleryURL \in NamedBy(last'.calls[k])
              /\ failed = {} =>
                    /\ last'.outcome = "ok"
                    /\ last'.distro = family[first].Distro
                    /\ Len(last'.calls) = Len(pages)
              /\ failed # {} =>
                    LET f == CHOOSE i \in failed : \A j \in failed : i <= j
                    IN /\ last'.outcome = "err"
                       /\ last'.err = pages[f].err
                       /\ last'.distro = "" /\ last'.id = ""
                       /\ Len(last'.calls) = f
      ]_vars

\* C17 witness: the first declared entry is not compatible, the second and
\* the third are, and the second was resolved
C17_Witness ==
    /\ last.op = "Get"
    /\ last.args.imageFamily = Ubuntu2204Reordered
    /\ last.args.instanceType = "Standard_D2_v2"
    /\ CompatibleEntries(last.args.imageFamily, last.args.instanceType) = {2, 3}
    /\ last.outcome = "ok"
    /\ last.distro = "aks-ubuntu-containerd-22.04"

\* C17 witness of the failure: the first compatible entry's listing failed
\* and the call ended there
C17_WitnessFailure ==
    /\ last.op = "Get"
    /\ last.args.imageFamily = Ubuntu2204AllGenerations
    /\ last.args.instanceType = "Standard_D2_v2"
    /\ last.outcome = "err"
    /\ last.err = "RemoteLookupFailure"
    /\ Len(last.calls) = 1

----------------------------------------------------------------------------
(* Concurrent calls.  Each goroutine runs one GetLatestImageID or          *)
(* GetCustomImageID call; the steps are the accesses to what the           *)
(* goroutines share: the cache lookup, the change monitor, the cache       *)
(* store.  The remote requests of a call touch nothing shared and are one  *)
(* step.  go-cache and the change monitor serialise their own operations.  *)

Threads == 1..MaxThreads

IdleFrame ==
    [pc |-> "idle", op |-> "none", args |-> NoArgs, outcome |-> "none", err |-> NoErr,
     id |-> "", calls |-> <<>>, logs |-> <<>>, resp |-> NoResp]

ConcurrentCalls ==
    {[op |-> "GetLatestImageID",
      args |-> [NoArgs EXCEPT !.defaultImage = d, !.useSIG = b]] :
        d \in DefaultImageOutputs, b \in BOOLEAN}
    \cup {[op |-> "GetCustomImageID", args |-> [NoArgs EXCEPT !.term = t]] :
            t \in {PinnedCustomImageTerm, LatestCustomImageTerm}}

\* image.go:104-105, 123: the key of the call in frame f
FrameKey(f) ==
    IF f.op = "GetLatestImageID" THEN LatestImageKey(f.args.defaultImage, f.args.useSIG)
    ELSE CustomImageKey(f.args.term)

\* log.Fatalf on some goroutine ended the process
Exited == \E th \in DOMAIN running : running[th].outcome = "fatal"

InitConcurrent ==
    /\ now = 0
    /\ nCalls = 0
    /\ imageCache = EmptyCache
    /\ kubernetesVersionCache = EmptyCache
    /\ cm = EmptyMonitor
    /\ last = NoCall
    /\ running = [th \in Threads |-> IdleFrame]

\* a goroutine enters a method
BeginCall(th) ==
    /\ ~Exited
    /\ running[th].pc = "idle"
    /\ \E c \in ConcurrentCalls :
           running' = [running EXCEPT ![th] =
                          [IdleFrame EXCEPT !.pc = "lookup", !.op = c.op, !.args = c.args]]
    /\ UNCHANGED <<now, nCalls, imageCache, kubernetesVersionCache, cm, last>>

\* mutant: the lookup never finds the entry
LookupStepAlwaysResolves(th) ==
    /\ ~Exited
    /\ running[th].pc = "lookup"
    /\ running' = [running EXCEPT ![th] = [@ EXCEPT !.pc = "resolve"]]
    /\ UNCHANGED <<now, nCalls, imageCache, kubernetesVersionCache, cm, last>>

\* image.go:106-108, 124-126: imageCache.Get
LookupStep(th) ==
    /\ ~Exited
    /\ running[th].pc = "lookup"
    /\ LET hit == CacheGet(imageCache, FrameKey(running[th]), now)
       IN running' = [running EXCEPT ![th] =
              IF hit.found
              THEN [@ EXCEPT !.pc = "done", !.outcome = "ok", !.id = hit.Object]
              ELSE [@ EXCEPT !.pc = "resolve"]]
    /\ UNCHANGED <<now, nCalls, imageCache, kubernetesVersionCache, cm, last>>

\* image.go:110-113 and 127-156: the frame after the remote side answered resp
Resolved(f, resp) ==
    IF f.op = "GetLatestImageID"
    THEN LET r == resolveImageID(f.args.defaultImage, f.args.useSIG, resp)
         IN IF r.err # NoErr
            THEN [f EXCEPT !.pc = "done", !.outcome = "err", !.err = r.err,
                           !.calls = r.calls, !.resp = resp]
            ELSE [f EXCEPT !.pc = "store", !.id = r.id, !.calls = r.calls, !.resp = resp]
    ELSE LET c == CustomImageCandidate(f.args.term, resp)
         IN IF resp.cred # NoErr
            THEN [f EXCEPT !.pc = "done", !.outcome = "fatal", !.err = resp.cred,
                           !.resp = resp]
            ELSE IF resp.client # NoErr
            THEN [f EXCEPT !.pc = "done", !.outcome = "fatal", !.err = resp.client,
                           !.resp = resp]
            ELSE IF c.err # NoErr
            THEN [f EXCEPT !.pc = "done", !.outcome = "err", !.err = c.err,
                           !.calls = c.calls, !.resp = resp]
            ELSE IF c.rec.ID.nil
            THEN [f EXCEPT !.pc = "done", !.outcome = "panic",
                           !.err = "nil pointer dereference",
                           !.calls = c.calls, !.resp = resp]
            ELSE [f EXCEPT !.pc = "notify", !.id = c.rec.ID.v, !.calls = c.calls,
                           !.resp = resp]

ResolveStep(th) ==
    /\ ~Exited
    /\ running[th].pc = "resolve"
    /\ \E f \in {Resolved(running[th], resp) :
                    resp \in IF running[th].op = "GetLatestImageID"
                             THEN LatestRespsOf[running[th].args.useSIG]
                             ELSE CustomRespsOf[running[th].args.term]} :
           running' = [running EXCEPT ![th] = f]
    /\ UNCHANGED <<now, nCalls, imageCache, kubernetesVersionCache, cm, last>>

\* image.go:157-160: cm.HasChanged and the notification
NotifyStep(th) ==
    /\ ~Exited
    /\ running[th].pc = "notify"
    /\ LET f == running[th]
       IN /\ running' = [running EXCEPT ![th] =
                 [@ EXCEPT !.pc = "store",
                           !.logs = IF HasChanged(cm, FrameKey(f), f.id)
                                    THEN <<DiscoveredImage(f.id)>> ELSE <<>>]]
          /\ cm' = Observe(cm, FrameKey(f), f.id)
    /\ UNCHANGED <<now, nCalls, imageCache, kubernetesVersionCache, last>>

\* image.go:115-119, 161-162: imageCache.Set and the return
StoreStep(th) ==
    /\ ~Exited
    /\ running[th].pc = "store"
    /\ LET f == running[th]
       IN /\ imageCache' = CacheSet(imageCache, FrameKey(f), f.id,
                                    imageExpirationInterval, now)
          /\ running' = [running EXCEPT ![th] =
                 [@ EXCEPT !.pc = "done", !.outcome = "ok",
                           !.logs = IF f.op = "GetLatestImageID"
                                    THEN <<DiscoveredImage(f.id)>> ELSE f.logs]]
    /\ UNCHANGED <<now, nCalls, kubernetesVersionCache, cm, last>>

NextConcurrent ==
    \E th \in Threads :
        \/ BeginCall(th)
        \/ LookupStep(th)
        \/ ResolveStep(th)
        \/ NotifyStep(th)
        \/ StoreStep(th)

SpecConcurrent == InitConcurrent /\ [][NextConcurrent]_vars

----------------------------------------------------------------------------
\* the key of the call in frame f, as the claims state it
KeyOfFrame(f) ==
    IF f.op = "GetLatestImageID" THEN KeyOfLatest(f.args) ELSE KeyOfCustom(f.args)

\* the image IDs that the answers given to the call in frame f stand for
AnsweredTo(f) ==
    LET d == f.args.defaultImage
        recs == RecordsOf(f.resp.pages, 1)
    IN IF f.op = "GetLatestImageID" /\ f.args.useSIG
       THEN {"/subscriptions/sub-sig/resourceGroups/" \o d.GalleryResourceGroup
                \o "/providers/Microsoft.Compute/galleries/" \o d.GalleryName
                \o "/images/" \o d.ImageDefinition \o "/versions/"
                \o f.resp.versions.Values[i].Version :
                    i \in 1..Len(f.resp.versions.Values)}
       ELSE IF f.op = "GetLatestImageID"
       THEN {"/CommunityGalleries/" \o d.PublicGalleryURL \o "/images/"
                \o d.ImageDefinition \o "/versions/" \o v :
                    v \in IF recs = <<>> THEN {""}
                          ELSE {recs[i].Name.v : i \in 1..Len(recs)}}
       ELSE IF f.args.term.Version # ""
       THEN {f.resp.point.rec.ID.v}
       ELSE {recs[i].ID.v : i \in 1..Len(recs)}

\* the frame is of a call that found no entry, asked the remote side and
\* came back with an ID
ResolvedItself(f) == f.pc = "done" /\ f.outcome = "ok" /\ f.calls # <<>>

\* C13: with no single-flight, calls for one key running at the same time
\* may each find the cache empty and each ask the remote side; whatever the
\* interleaving, a call that is not finished can take its next step (unless
\* log.Fatalf ended the process), a call that asked the remote side returns
\* an ID that the answers given to that very call stand for, a call served
\* from the cache returns an ID that one of the calls for its key resolved,
\* and once calls have stored under a key the cache holds, under that key,
\* the ID one of them resolved.
C13_ConcurrentMissesSafe ==
    /\ \A th \in Threads :
          /\ (~Exited /\ running[th].pc # "done") =>
                ENABLED (\/ BeginCall(th) \/ LookupStep(th) \/ ResolveStep(th)
                         \/ NotifyStep(th) \/ StoreStep(th))
          /\ ResolvedItself(running[th]) =>
                /\ running[th].id \in AnsweredTo(running[th])
                /\ KeyOfFrame(running[th]) \in DOMAIN imageCache
          /\ (running[th].pc = "done" /\ running[th].outcome = "ok"
              /\ running[th].calls = <<>>) =>
                \E other \in Threads :
                    /\ ResolvedItself(running[other])
                    /\ KeyOfFrame(running[other]) = KeyOfFrame(running[th])
                    /\ running[other].id = running[th].id
    /\ \A k \in DOMAIN imageCache :
          \E th \in Threads :
              /\ ResolvedItself(running[th])
              /\ KeyOfFrame(running[th]) = k
              /\ imageCache[k].Object = running[th].id

\* C13 witness: two calls for one shared-gallery key both asked the remote
\* side, were answered differently, and the cache holds one of the two IDs
C13_Witness ==
    /\ running[1].op = "GetLatestImageID" /\ running[1].args.useSIG
    /\ running[2].op = "GetLatestImageID"
    /\ running[1].args = running[2].args
    /\ ResolvedItself(running[1]) /\ ResolvedItself(running[2])
    /\ running[1].id # running[2].id
    /\ imageCache[KeyOfFrame(running[1])].Object = running[2].id

----------------------------------------------------------------------------
\* the call observed in l, made again on caches ic and kc with change
\* monitor m at time t and answered as the observed call was
Again(l, ic, kc, m, t) ==
    IF l.op = "Get"
    THEN Get(l.args.term,
             CHOOSE it \in InstanceTypes : it.Name = l.args.instanceType,
             l.args.imageFamily, l.args.useSIG, ic, kc, m, t, l.resp)
    ELSE IF l.op = "GetLatestImageID"
    THEN GetLatestImageID(l.args.defaultImage, l.args.useSIG, ic, kc, m, t, l.resp)
    ELSE IF l.op = "GetCustomImageID"
    THEN GetCustomImageID(l.args.term, ic, kc, m, t, l.resp)
    ELSE KubeServerVersion(ic, kc, m, t, l.resp)

\* C14: what a call returns, what it asks the remote side and what it
\* leaves in the two caches do not depend on the change monitor: the same
\* call on the same caches with the same answers, made with the monitor
\* emptied or with the monitor as the call itself leaves it, ends in the same
\* outcome, error, distro, ID and requests and the same cache contents; only
\* the notifications differ.  Runs that start from equal caches therefore
\* keep equal caches and equal results call after call, wherever the
\* monitor is reset.
C14_ChangeSignalNotNeeded ==
    [][ IsCall =>
          \A m \in {EmptyMonitor, cm'} :
              LET twin == Again(last', imageCache, kubernetesVersionCache, m, now)
              IN /\ twin.outcome = last'.outcome
                 /\ twin.err = last'.err
                 /\ twin.distro = last'.distro
                 /\ twin.id = last'.id
                 /\ twin.calls = last'.calls
                 /\ twin.imageCache = imageCache'
                 /\ twin.kubernetesVersionCache = kubernetesVersionCache'
      ]_vars

\* C14 witness: after the entry expired, the custom image was resolved
\* again to the ID the monitor had already seen, and no notification was
\* emitted, where an emptied monitor would have emitted one
C14_Witness ==
    /\ last.op = "GetCustomImageID"
    /\ nCalls = 2
    /\ last.at = imageExpirationInterval
    /\ last.outcome = "ok"
    /\ last.calls # <<>>
    /\ last.logs = <<>>
    /\ Again(last, EmptyCache, EmptyCache, EmptyMonitor, now).logs # <<>>

----------------------------------------------------------------------------
(* GetLatestImageID in community mode on an empty cache, over the listings *)
(* of InitCommunity, beside the resolver alone                             *)

LatestFromListing ==
    /\ last.op = "listing"
    /\ \E d \in DefaultImageOutputs :
           Complete("GetLatestImageID",
                    [NoArgs EXCEPT !.defaultImage = d, !.useSIG = FALSE],
                    GetLatestImageID(d, FALSE, imageCache, kubernetesVersionCache, cm, now,
                                     [NoResp EXCEPT !.pages = last.resp.pages]))

NextLatestCommunity ==
    \/ ResolveCommunity
    \/ LatestFromListing

SpecLatestCommunity == InitCommunity /\ [][NextLatestCommunity]_vars

\* C15: when a page request of the community listing fails, also after
\* earlier pages were read, the resolver has sent no request beyond that
\* page and returns that page's error with no version name, and
\* GetLatestImageID returns that same error with an empty ID and leaves the
\* image cache without an entry.
C15_CommunityPageFailure ==
    (last.op \in {"latestNodeImageVersionCommunity", "GetLatestImageID"}) =>
        LET pages == last.resp.pages
            failed == {i \in 1..Len(pages) : pages[i].err # NoErr}
        IN failed # {} =>
              LET f == CHOOSE i \in failed : \A j \in failed : i <= j
              IN /\ last.outcome = "err"
                 /\ last.err = pages[f].err
                 /\ last.id = ""
                 /\ Len(last.calls) = f
                 /\ imageCache = EmptyCache

\* C15 witness: the second page failed after a version was read from the
\* first, and GetLatestImageID returned the failure
C15_Witness ==
    /\ last.op = "GetLatestImageID"
    /\ last.resp.pages = <<Page(<<CommunityV2>>), ErrPage("RemoteThrottled")>>
    /\ last.err = "RemoteThrottled"
    /\ Len(last.calls) = 2

----------------------------------------------------------------------------
\* C16: the version cache is one slot of its own.  A KubeServerVersion call
\* that finds the slot unexpired returns the stored string and sends no
\* discovery request; one that finds it empty or expired sends one request
\* and, on success, fills the slot with what it returns, while a discovery
\* error is returned with the slot left as it was.  A KubeServerVersion call
\* neither changes the image cache nor depends on it, and an image
\* resolution call neither changes the version slot nor depends on it.
C16_VersionSlotIndependent ==
    [][ IsCall =>
          IF last'.op = "KubeServerVersion"
          THEN LET slot == "kubernetesVersion"
                   other == Again(last', EmptyCache, kubernetesVersionCache, cm, now)
               IN /\ DOMAIN kubernetesVersionCache' \subseteq {slot}
                  /\ Live(kubernetesVersionCache, slot, now) =>
                        /\ last'.outcome = "ok"
                        /\ last'.id = kubernetesVersionCache[slot].Object
                        /\ last'.calls = <<>>
                        /\ kubernetesVersionCache' = kubernetesVersionCache
                  /\ ~Live(kubernetesVersionCache, slot, now) =>
                        /\ last'.calls = <<[api |-> "Discovery.ServerVersion", args |-> <<>>]>>
                        /\ last'.outcome = "ok" =>
                              /\ Live(kubernetesVersionCache', slot, now)
                              /\ kubernetesVersionCache'[slot].Object = last'.id
                        /\ last'.outcome = "err" =>
                              /\ last'.err = last'.resp.serverVersion.err
                              /\ last'.id = ""
                              /\ kubernetesVersionCache' = kubernetesVersionCache
                  /\ imageCache' = imageCache
                  /\ other.outcome = last'.outcome /\ other.id = last'.id
                  /\ other.calls = last'.calls
                  /\ other.kubernetesVersionCache = kubernetesVersionCache'
                  /\ other.imageCache = EmptyCache
          ELSE LET other == Again(last', imageCache, EmptyCache, cm, now)
               IN /\ kubernetesVersionCache' = kubernetesVersionCache
                  /\ other.outcome = last'.outcome /\ other.id = last'.id
                  /\ other.calls = last'.calls
                  /\ other.imageCache = imageCache'
                  /\ other.kubernetesVersionCache = EmptyCache
      ]_vars

\* C16 witness: the second of two KubeServerVersion calls was answered from
\* the slot
C16_Witness ==
    /\ last.op = "KubeServerVersion"
    /\ nCalls = 2
    /\ last.outcome = "ok"
    /\ last.id = "1.24.9"
    /\ last.calls = <<>>
    /\ Live(kubernetesVersionCache, "kubernetesVersion", now)

\* C16 witness of the independence: the version was discovered while the
\* image cache held an image
C16_WitnessBesideImage ==
    /\ last.op = "KubeServerVersion"
    /\ last.calls # <<>>
    /\ last.outcome = "ok"
    /\ imageCache # EmptyCache

----------------------------------------------------------------------------
(* Both latest-version selections over listings in which records share     *)
(* their publish timestamp                                                 *)

\* two builds published at the same instant, and an older one
CommunityTied ==
    { CommunityVersion("2025.03.01", 2), CommunityVersion("2025.03.02", 2), CommunityV1 }

GalleryTied ==
    { GalleryV2(LatestCustomImageTerm),
      GalleryVersion(Ptr(GalleryVersionID(LatestCustomImageTerm, "2.0.1")), 2),
      GalleryV1(LatestCustomImageTerm) }

InitTies ==
    /\ now = 0
    /\ nCalls = 0
    /\ imageCache = EmptyCache
    /\ kubernetesVersionCache = EmptyCache
    /\ cm = EmptyMonitor
    /\ running = <<>>
    /\ \E records \in {CommunityTied, GalleryTied} :
       \E pages \in ListingsOver(PagesOver(records, MaxPageLen), MaxPages) :
           last = [NoCall EXCEPT !.op = "listing", !.resp.pages = pages]

\* the listing is one of community versions / of gallery image versions
CommunityListed ==
    \A i \in 1..Len(last.resp.pages) : \A k \in 1..Len(last.resp.pages[i].Value) :
        "Name" \in DOMAIN last.resp.pages[i].Value[k]

GalleryListed ==
    \A i \in 1..Len(last.resp.pages) : \A k \in 1..Len(last.resp.pages[i].Value) :
        "ID" \in DOMAIN last.resp.pages[i].Value[k]

NextTies ==
    \/ CommunityListed /\ ResolveCommunity
    \/ GalleryListed /\ ResolveCustomLatest

SpecTies == InitTies /\ [][NextTies]_vars

\* C18: in the community resolver and in the custom resolver's latest mode
\* the candidate gives way only to a record published strictly later: over a
\* listing with no failing page and at least one record (each with an ID,
\* for the custom resolver), the record returned is the first, in listing
\* order across the pages, among those with the greatest publish timestamp.
C18_FirstSeenLatestKept ==
    (last.op \in {"latestNodeImageVersionCommunity", "GetCustomImageID"}) =>
        LET pages == last.resp.pages
            recs == RecordsOf(pages, 1)
            latest == {i \in 1..Len(recs) :
                          \A j \in 1..Len(recs) :
                              recs[j].PublishedDate <= recs[i].PublishedDate}
        IN (/\ \A i \in 1..Len(pages) : pages[i].err = NoErr
            /\ Len(recs) > 0)
           => LET first == CHOOSE i \in latest : \A j \in latest : i <= j
              IN /\ last.outcome = "ok"
                 /\ last.id = IF last.op = "GetCustomImageID"
                              THEN recs[first].ID.v ELSE recs[first].Name.v

\* C18 witness: two versions of the same, greatest timestamp lie on
\* different pages and the one listed first was returned
C18_Witness ==
    /\ last.op = "latestNodeImageVersionCommunity"
    /\ last.resp.pages = <<Page(<<CommunityV1, CommunityVersion("2025.03.02", 2)>>),
                           Page(<<CommunityVersion("2025.03.01", 2)>>)>>
    /\ last.id = "2025.03.02"

\* C18 witness for the custom resolver
C18_WitnessCustom ==
    /\ last.op = "GetCustomImageID"
    /\ last.resp.pages = <<Page(<<GalleryVersion(Ptr(GalleryVersionID(LatestCustomImageTerm,
                                                                      "2.0.1")), 2)>>),
                           Page(<<GalleryV2(LatestCustomImageTerm)>>)>>
    /\ last.id = GalleryVersionID(LatestCustomImageTerm, "2.0.1")

----------------------------------------------------------------------------
\* the community path of descriptor d with nothing after /versions/
EmptyVersionID(d) ==
    "/CommunityGalleries/" \o d.PublicGalleryURL \o "/images/" \o d.ImageDefinition
        \o "/versions/"

\* C19: a community listing whose pages all succeed and hold no version does
\* not fail: GetLatestImageID in community mode, finding nothing cached,
\* returns the community path with an empty version segment and stores it
\* under the key for the expiration interval; later calls for the key within
\* the interval return that path without asking the remote side.
C19_EmptyListingResolves ==
    [][ (/\ IsCall /\ last'.op = "GetLatestImageID"
         /\ ~last'.args.useSIG) =>
          LET d == last'.args.defaultImage
              key == KeyOfLatest(last'.args)
              pages == last'.resp.pages
          IN /\ (/\ ~Live(imageCache, key, now)
                 /\ \A i \in 1..Len(pages) : pages[i].err = NoErr
                 /\ RecordsOf(pages, 1) = <<>>)
                => /\ last'.outcome = "ok"
                   /\ last'.err = NoErr
                   /\ last'.id = EmptyVersionID(d)
                   /\ Len(last'.calls) = Len(pages)
                   /\ imageCache'[key] = [Object |-> EmptyVersionID(d),
                                          Expiration |-> now + imageExpirationInterval]
             /\ (/\ Live(imageCache, key, now)
                 /\ imageCache[key].Object = EmptyVersionID(d))
                => /\ last'.outcome = "ok"
                   /\ last'.id = EmptyVersionID(d)
                   /\ last'.calls = <<>>
                   /\ imageCache' = imageCache
      ]_vars

\* C19 witness: half an interval after an empty listing was resolved, the
\* path without a version was served from the cache
C19_Witness ==
    /\ last.op = "GetLatestImageID"
    /\ ~last.args.useSIG
    /\ nCalls = 2
    /\ last.at = TickStep
    /\ last.calls = <<>>
    /\ last.id = "/CommunityGalleries/AKSUbuntu-38d8/images/2204gen2containerd/versions/"

----------------------------------------------------------------------------
\* C20: when several records of the version list carry the requested image
\* definition as SKU, getSIGImageID builds the ID from the version of the
\* first of them in list order; the records of other SKUs do not matter:
\* the list with those records removed gives the same result.
C20_SharedGalleryFirstMatch ==
    (last.op = "getSIGImageID" /\ last.resp.versions.err = NoErr) =>
        LET d == last.args.defaultImage
            values == last.resp.versions.Values
            matches == {i \in 1..Len(values) : values[i].SKU = d.ImageDefinition}
            IsMatch(v) == v.SKU = d.ImageDefinition
            alone == getSIGImageID(d, [err |-> NoErr, Values |-> SelectSeq(values, IsMatch)])
        IN /\ matches # {} =>
                LET first == CHOOSE i \in matches : \A j \in matches : i <= j
                IN /\ last.err = NoErr
                   /\ last.id = "/subscriptions/sub-sig/resourceGroups/"
                                \o d.GalleryResourceGroup
                                \o "/providers/Microsoft.Compute/galleries/" \o d.GalleryName
                                \o "/images/" \o d.ImageDefinition
                                \o "/versions/" \o values[first].Version
           /\ alone.err = last.err
           /\ alone.id = last.id

\* C20 witness: after a record of another SKU come two records of the
\* requested one, and the version of the earlier of the two was used
C20_Witness ==
    /\ last.op = "getSIGImageID"
    /\ last.args.defaultImage.ImageDefinition = "2204gen2containerd"
    /\ last.resp.versions.Values =
           << NodeImageVersion("2004gen2containerd", "202503.01.0"),
              NodeImageVersion("2204gen2containerd", "202501.01.0"),
              NodeImageVersion("2204gen2containerd", "202502.01.0") >>
    /\ last.id = "/subscriptions/sub-sig/resourceGroups/AKS-Ubuntu/providers/Microsoft.Compute/galleries/AKSUbuntu/images/2204gen2containerd/versions/202501.01.0"

----------------------------------------------------------------------------
(* Custom resolutions over several expiration intervals.  The observation  *)
(* of a call carries, beside what the call did, the ID each key was last   *)
(* resolved to by the calls so far.                                        *)

NoHistory == [k \in {} |-> ""]

\* observation l together with the history h
WithHistory(l, h) ==
    [op |-> l.op, at |-> l.at, args |-> l.args, outcome |-> l.outcome, err |-> l.err,
     distro |-> l.distro, id |-> l.id, calls |-> l.calls, logs |-> l.logs,
     resp |-> l.resp, hist |-> h]

\* history h after the call with result r for key
HistoryAfter(h, key, r) ==
    IF r.outcome = "ok" /\ r.calls # <<>>
    THEN [k \in DOMAIN h \cup {key} |-> IF k = key THEN r.id ELSE h[k]]
    ELSE h

InitDiscovery ==
    /\ now = 0
    /\ nCalls = 0
    /\ imageCache = EmptyCache
    /\ kubernetesVersionCache = EmptyCache
    /\ cm = EmptyMonitor
    /\ running = <<>>
    /\ last = WithHistory(NoCall, NoHistory)

DiscoveryCall ==
    /\ Alive
    /\ nCalls < MaxResolutions
    /\ \E imageTerm \in {PinnedCustomImageTerm, LatestCustomImageTerm} :
        \E r \in {GetCustomImageID(imageTerm,
                      imageCache, kubernetesVersionCache, cm, now, resp) :
                  resp \in CustomRespsOf[imageTerm]} :
            /\ nCalls' = nCalls + 1
            /\ imageCache' = r.imageCache
            /\ kubernetesVersionCache' = r.kubernetesVersionCache
            /\ cm' = r.cm
            /\ last' = WithHistory(
                           [op |-> "GetCustomImageID", at |-> now,
                            args |-> [NoArgs EXCEPT !.term = imageTerm],
                            outcome |-> r.outcome, err |-> r.err, distro |-> r.distro,
                            id |-> r.id, calls |-> r.calls, logs |-> r.logs,
                            resp |-> r.resp],
                           HistoryAfter(last.hist, CustomImageKey(imageTerm), r))
    /\ UNCHANGED <<now, running>>

\* a whole expiration interval passes
IntervalTick ==
    /\ Alive
    /\ now < MaxTicks * imageExpirationInterval
    /\ now' = now + imageExpirationInterval
    /\ UNCHANGED <<nCalls, imageCache, kubernetesVersionCache, cm, last, running>>

NextDiscovery ==
    \/ DiscoveryCall
    \/ IntervalTick
    \/ Janitor

SpecDiscovery == InitDiscovery /\ [][NextDiscovery]_vars

\* C21: a GetCustomImageID call that finds nothing cached and resolves an
\* ID emits the notification "discovered new image id" exactly when no
\* earlier call resolved an ID for the key or the last one resolved another
\* ID, and stores its ID under the key; a call that resolves nothing emits
\* none.
C21_DiscoveryGated ==
    [][ (IsCall /\ last'.op = "GetCustomImageID") =>
          LET key == KeyOfCustom(last'.args)
              new == key \notin DOMAIN last.hist \/ last.hist[key] # last'.id
          IN IF last'.outcome = "ok" /\ last'.calls # <<>>
             THEN /\ last'.logs = IF new
                                  THEN <<[msg |-> "discovered new image id",
                                          value |-> last'.id]>>
                                  ELSE <<>>
                  /\ Live(imageCache', key, now)
                  /\ imageCache'[key].Object = last'.id
             ELSE last'.logs = <<>>
      ]_vars

\* C21 witness: three resolutions of one key an interval apart; the second
\* gave the ID of the first, and the third, giving it again, stayed silent
C21_Witness ==
    /\ nCalls = 3
    /\ last.at = 2 * imageExpirationInterval
    /\ last.outcome = "ok"
    /\ last.calls # <<>>
    /\ last.logs = <<>>
    /\ DOMAIN last.hist = {KeyOfCustom(last.args)}
    /\ DOMAIN imageCache = {KeyOfCustom(last.args)}

----------------------------------------------------------------------------
\* C22: a GetCustomImageID call that finds a live entry under its key
\* returns the cached ID whatever the credential and client construction
\* would have answered, consuming no answer, issuing no request and
\* leaving the caches as they were.  A call that finds none and whose
\* credential or client construction fails ends the process with that
\* failure rather than returning it: no request was issued, the caches are
\* unchanged and no call follows.  Every request a call issues is made with
\* the term's GallerySubscriptionID, after both constructions succeeded.
C22_LookupThenCredentialThenRemote ==
    [][ /\ (IsCall /\ last'.op = "GetCustomImageID") =>
            LET imageTerm == last'.args.term
                key == KeyOfCustom(last'.args)
                built == last'.resp.cred = NoErr /\ last'.resp.client = NoErr
            IN /\ Live(imageCache, key, now) =>
                    /\ last'.outcome = "ok"
                    /\ last'.id = imageCache[key].Object
                    /\ last'.calls = <<>>
                    /\ last'.resp = NoResp
                    /\ imageCache' = imageCache
               /\ ~built =>
                    /\ ~Live(imageCache, key, now)
                    /\ last'.outcome = "fatal"
                    /\ last'.err \in {last'.resp.cred, last'.resp.client} \ {NoErr}
               /\ last'.outcome = "fatal" =>
                    /\ ~built
                    /\ last'.calls = <<>>
                    /\ imageCache' = imageCache
                    /\ kubernetesVersionCache' = kubernetesVersionCache
               /\ last'.calls # <<>> =>
                    /\ built
                    /\ \A i \in DOMAIN last'.calls :
                           last'.calls[i].args[1] = imageTerm.GallerySubscriptionID
        /\ last.outcome = "fatal" => ~IsCall
      ]_vars

\* C22 witness: a second call for a key was answered from the entry the
\* first one stored
C22_Witness ==
    /\ last.op = "GetCustomImageID"
    /\ nCalls = 2
    /\ last.outcome = "ok"
    /\ last.calls = <<>>
    /\ last.id = imageCache[KeyOfCustom(last.args)].Object

\* C22 witness: the client construction failed for a key whose entry had
\* expired, and the process ended with the expired entry still in place
C22_WitnessFatal ==
    /\ last.op = "GetCustomImageID"
    /\ last.outcome = "fatal"
    /\ last.err = "ClientConstructionFailure"
    /\ KeyOfCustom(last.args) \in DOMAIN imageCache
    /\ ~Live(imageCache, KeyOfCustom(last.args), now)

----------------------------------------------------------------------------
(* Custom resolutions for terms one field apart.  The observation of a    *)
(* call carries the resolutions stored so far: term, ID and time.         *)

AmdDistroName == "aks-ubuntu-containerd-22.04-gen2"

\* the pinned and the latest term, each also under the other distro name,
\* and the latest term with one of its other fields changed
KeyTerms ==
    { PinnedCustomImageTerm,
      LatestCustomImageTerm,
      [PinnedCustomImageTerm EXCEPT !.DistroName = AmdDistroName],
      [LatestCustomImageTerm EXCEPT !.DistroName = AmdDistroName],
      [LatestCustomImageTerm EXCEPT !.GallerySubscriptionID = "sub-other"],
      [LatestCustomImageTerm EXCEPT !.GalleryResourceGroupName = "rg-other"],
      [LatestCustomImageTerm EXCEPT !.GalleryName = "othergallery"],
      [LatestCustomImageTerm EXCEPT !.Name = "otherimage"] }

KeyRespsOf == [t \in KeyTerms |-> CustomResps(t)]

\* the stored resolutions after the call for imageTerm at time t with result r
StoredAfter(h, imageTerm, t, r) ==
    IF r.outcome = "ok" /\ r.calls # <<>>
    THEN h \cup {[term |-> imageTerm, id |-> r.id, at |-> t]}
    ELSE h

InitKeys ==
    /\ now = 0
    /\ nCalls = 0
    /\ imageCache = EmptyCache
    /\ kubernetesVersionCache = EmptyCache
    /\ cm = EmptyMonitor
    /\ running = <<>>
    /\ last = WithHistory(NoCall, {})

\* the observation of the call op for imageTerm with result r
KeysObserved(op, args, r) ==
    /\ nCalls' = nCalls + 1
    /\ imageCache' = r.imageCache
    /\ kubernetesVersionCache' = r.kubernetesVersionCache
    /\ cm' = r.cm
    /\ last' = WithHistory(
                   [op |-> op, at |-> now, args |-> args,
                    outcome |-> r.outcome, err |-> r.err, distro |-> r.distro,
                    id |-> r.id, calls |-> r.calls, logs |-> r.logs, resp |-> r.resp],
                   StoredAfter(last.hist, args.term, now, r))
    /\ UNCHANGED <<now, running>>

GetCustomImageIDKeysCall ==
    /\ CanCall
    /\ \E imageTerm \in KeyTerms :
        \E r \in {GetCustomImageID(imageTerm,
                      imageCache, kubernetesVersionCache, cm, now, resp) :
                  resp \in KeyRespsOf[imageTerm]} :
            KeysObserved("GetCustomImageID", [NoArgs EXCEPT !.term = imageTerm], r)

GetKeysCall ==
    /\ CanCall
    /\ \E term \in KeyTerms :
        \E instanceType \in {it \in InstanceTypes : it.Name = "Standard_D2s_v3"} :
        \E r \in {Get(term, instanceType, CustomImagesDefaultImages, FALSE,
                      imageCache, kubernetesVersionCache, cm, now, resp) :
                  resp \in KeyRespsOf[term]} :
            KeysObserved("Get",
                [NoArgs EXCEPT !.term = term, !.instanceType = instanceType.Name,
                               !.imageFamily = CustomImagesDefaultImages],
                r)

NextKeys ==
    \/ GetCustomImageIDKeysCall
    \/ GetKeysCall
    \/ Tick
    \/ Janitor

SpecKeys == InitKeys /\ [][NextKeys]_vars

\* the terms name one image version: their five gallery fields agree
SameFiveFields(a, b) ==
    /\ a.GallerySubscriptionID = b.GallerySubscriptionID
    /\ a.GalleryResourceGroupName = b.GalleryResourceGroupName
    /\ a.GalleryName = b.GalleryName
    /\ a.Name = b.Name
    /\ a.Version = b.Version

\* C23: a custom resolution (GetCustomImageID, or Get with a custom term)
\* is answered from the cache, without a request, exactly when a resolution
\* for a term with the same subscription, resource group, gallery, image
\* name and version was stored less than the expiration interval ago, and
\* then with the ID of that resolution: never from the entry of a term that
\* differs in one of the five fields, the version included (pinned against
\* latest), and always from the entry of a term that differs in DistroName
\* only.  Get returns the DistroName of the term it was called with.
C23_KeySeparatesTerms ==
    [][ (IsCall /\ last'.op \in {"GetCustomImageID", "Get"}) =>
          LET imageTerm == last'.args.term
              same == {h \in last.hist :
                         /\ SameFiveFields(h.term, imageTerm)
                         /\ now < h.at + imageExpirationInterval}
          IN /\ same # {} =>
                  /\ last'.outcome = "ok"
                  /\ last'.calls = <<>>
                  /\ last'.id \in {h.id : h \in same}
             /\ same = {} => (last'.outcome = "ok" => last'.calls # <<>>)
             /\ (last'.op = "Get" /\ last'.outcome = "ok") =>
                    last'.distro = imageTerm.DistroName
      ]_vars

\* C23 witness: Get for a term was answered from the entry stored for the
\* term that differs from it in DistroName only, and returned its own
\* DistroName
C23_Witness ==
    /\ last.op = "Get"
    /\ last.outcome = "ok"
    /\ last.calls = <<>>
    /\ last.distro = last.args.term.DistroName
    /\ \E h \in last.hist :
          /\ SameFiveFields(h.term, last.args.term)
          /\ h.term.DistroName # last.distro
          /\ h.id = last.id

\* C23 witness: after the latest resolution of an image was stored, the
\* pinned resolution of the same image went to the gallery
C23_WitnessPinnedAfterLatest ==
    /\ last.op = "GetCustomImageID"
    /\ last.args.term = PinnedCustomImageTerm
    /\ last.outcome = "ok"
    /\ last.calls # <<>>
    /\ \E h \in last.hist : h.term = LatestCustomImageTerm /\ h.at = last.at

----------------------------------------------------------------------------
(* The four methods against a remote side that would answer again after a *)
(* failure: the listings say what each successive page request is         *)
(* answered with, failed ones included.                                   *)

CommunityListingsAfterFailure ==
    { <<ErrPage("RemoteThrottled"), Page(<<CommunityV1>>)>>,
      <<ErrPage("RemoteThrottled"), ErrPage("RemoteLookupFailure")>>,
      <<Page(<<CommunityV1>>), ErrPage("RemoteThrottled"), Page(<<CommunityV2>>)>> }

GalleryListingsAfterFailure(imageTerm) ==
    { <<ErrPage("RemoteThrottled"), Page(<<GalleryV1(imageTerm)>>)>>,
      <<ErrPage("RemoteThrottled"), ErrPage("RemoteLookupFailure")>>,
      <<Page(<<GalleryV1(imageTerm)>>), ErrPage("RemoteThrottled"),
        Page(<<GalleryV2(imageTerm)>>)>> }

CommunityRespsAfterFailure ==
    {[NoResp EXCEPT !.pages = l] : l \in CommunityListings \cup CommunityListingsAfterFailure}

CustomRespsAfterFailure(imageTerm) ==
    CustomResps(imageTerm)
    \cup (IF imageTerm.Version # "" THEN {}
          ELSE {[NoResp EXCEPT !.pages = l] : l \in GalleryListingsAfterFailure(imageTerm)})

GetNoRetryCall ==
    /\ CanCall
    /\ \E term \in {ZeroCustomImageTerm, PinnedCustomImageTerm, LatestCustomImageTerm},
          instanceType \in InstanceTypes :
        \E r \in {Get(term, instanceType, Ubuntu2204DefaultImages, FALSE,
                      imageCache, kubernetesVersionCache, cm, now, resp) :
                  resp \in IF IsZeroTerm(term) THEN CommunityRespsAfterFailure
                           ELSE CustomRespsAfterFailure(term)} :
            Complete("Get",
                [NoArgs EXCEPT !.term = term, !.instanceType = instanceType.Name,
                               !.imageFamily = Ubuntu2204DefaultImages],
                r)

GetLatestImageIDNoRetryCall ==
    /\ CanCall
    /\ \E defaultImage \in DefaultImageOutputs, useSIG \in BOOLEAN :
        \E r \in {GetLatestImageID(defaultImage, useSIG,
                      imageCache, kubernetesVersionCache, cm, now, resp) :
                  resp \in IF useSIG THEN LatestRespsOf[TRUE]
                           ELSE CommunityRespsAfterFailure} :
            Complete("GetLatestImageID",
                [NoArgs EXCEPT !.defaultImage = defaultImage, !.useSIG = useSIG],
                r)

GetCustomImageIDNoRetryCall ==
    /\ CanCall
    /\ \E imageTerm \in {PinnedCustomImageTerm, LatestCustomImageTerm} :
        \E r \in {GetCustomImageID(imageTerm,
                      imageCache, kubernetesVersionCache, cm, now, resp) :
                  resp \in CustomRespsAfterFailure(imageTerm)} :
            Complete("GetCustomImageID", [NoArgs EXCEPT !.term = imageTerm], r)

NextNoRetry ==
    \/ GetNoRetryCall
    \/ GetLatestImageIDNoRetryCall
    \/ GetCustomImageIDNoRetryCall
    \/ KubeServerVersionCall

SpecNoRetry == Init /\ [][NextNoRetry]_vars

\* the page requests whose answer is a failure
FailedPages(pages) == {i \in 1..Len(pages) : pages[i].err # NoErr}

\* the least element of a non-empty set of numbers
Least(S) == CHOOSE i \in S : \A j \in S : i <= j

PagerAPIs ==
    {"CommunityGalleryImageVersions.List", "GalleryImageVersions.ListByGalleryImage"}

\* C24: in every call of Get, GetLatestImageID, GetCustomImageID and
\* KubeServerVersion that issues requests, all requests are one request
\* repeated page by page; a call that pages stops at the first failed page
\* request, which is its last request and whose error it returns, also when
\* the remote side would have answered the next request, and fetches every
\* page when none fails; a point lookup, a version-list call and a
\* discovery call are issued once, and their error is what the call returns.
C24_NoInternalRetry ==
    [][ (IsCall /\ last'.calls # <<>>) =>
          LET calls == last'.calls
              api == calls[1].api
              pages == last'.resp.pages
              single == IF api = "GalleryImageVersions.Get" THEN last'.resp.point.err
                        ELSE IF api = "NodeImageVersions.List" THEN last'.resp.versions.err
                        ELSE last'.resp.serverVersion.err
          IN /\ \A i \in DOMAIN calls : calls[i] = calls[1]
             /\ api \in PagerAPIs =>
                  IF FailedPages(pages) # {}
                  THEN /\ Len(calls) = Least(FailedPages(pages))
                       /\ last'.outcome = "err"
                       /\ last'.err = pages[Least(FailedPages(pages))].err
                  ELSE /\ Len(calls) = Len(pages)
                       /\ last'.err \notin RemoteErrors
             /\ api \notin PagerAPIs =>
                  /\ Len(calls) = 1
                  /\ single # NoErr => last'.outcome = "err" /\ last'.err = single
                  /\ single = NoErr => last'.err \notin RemoteErrors
      ]_vars

\* C24 witness: the first page request of a latest custom resolution
\* failed where the second would have been answered with a page; the call
\* issued one request and returned that failure
C24_Witness ==
    /\ last.op = "GetCustomImageID"
    /\ Len(last.calls) = 1
    /\ Len(last.resp.pages) = 2
    /\ last.resp.pages[1].err = "RemoteThrottled"
    /\ last.resp.pages[2].err = NoErr
    /\ last.outcome = "err"
    /\ last.err = "RemoteThrottled"

----------------------------------------------------------------------------
\* C25: a GetCustomImageID call that gets past the credential, the client
\* and its gallery requests selects a candidate with an ID, so it ends
\* returning an ID or an error and never by dereferencing an absent ID;
\* also in latest mode when the listing holds no version or records
\* without an ID.
C25_CandidateHasID ==
    last.op = "GetCustomImageID" =>
        /\ last.outcome \in {"ok", "err", "fatal"}
        /\ (last.outcome = "ok" /\ last.calls # <<>>) =>
              \E i \in DOMAIN last.resp.pages \cup {0} :
                  LET records == IF i = 0 THEN <<last.resp.point.rec>>
                                 ELSE last.resp.pages[i].Value
                  IN \E k \in DOMAIN records :
                        ~records[k].ID.nil /\ records[k].ID.v = last.id

----------------------------------------------------------------------------
\* C26: once a call has stored an ID under a key, the value under that key
\* does not change to another ID while the entry is live, whatever the
\* interleaving of the calls for the key and whatever the remote side
\* answers them.
C26_EntryStable ==
    [][ \A k \in DOMAIN imageCache :
            Live(imageCache, k, now) =>
                /\ k \in DOMAIN imageCache'
                /\ imageCache'[k].Object = imageCache[k].Object
      ]_vars

\* C26, amended: a call whose lookup finds a live entry returns the ID held
\* at that moment and leaves the cache as it is; the value under a key is
\* set or replaced only by the store of a call for that key whose own
\* lookup found nothing and which asked the remote side itself, and it is
\* then that call's ID with a full expiration interval.  Calls that miss
\* at the same time may therefore store and return different IDs.
C26_EntryChangesOnlyByOwnMiss ==
    [][ /\ \A th \in Threads :
              (/\ running[th].pc = "lookup"
               /\ running'[th].pc # "lookup"
               /\ Live(imageCache, KeyOfFrame(running[th]), now))
              => /\ running'[th].pc = "done"
                 /\ running'[th].outcome = "ok"
                 /\ running'[th].calls = <<>>
                 /\ running'[th].id = imageCache[KeyOfFrame(running[th])].Object
                 /\ imageCache' = imageCache
        /\ \A k \in DOMAIN imageCache' :
              (k \notin DOMAIN imageCache \/ imageCache'[k] # imageCache[k])
              => \E th \in Threads :
                    /\ running[th].pc = "store"
                    /\ running'[th].pc = "done"
                    /\ running[th].calls # <<>>
                    /\ KeyOfFrame(running[th]) = k
                    /\ imageCache'[k].Object = running[th].id
                    /\ imageCache'[k].Expiration = now + imageExpirationInterval
                    /\ running'[th].id = running[th].id
        /\ DOMAIN imageCache \subseteq DOMAIN imageCache'
      ]_vars

\* C26 witness: two pinned custom resolutions of one term both found
\* nothing cached, were answered with different versions, and both stored:
\* the entry went from the ID of the one to the ID of the other
C26_Witness ==
    /\ running[1].op = "GetCustomImageID"
    /\ running[1].args.term = PinnedCustomImageTerm
    /\ running[2].op = "GetCustomImageID"
    /\ running[2].args.term = PinnedCustomImageTerm
    /\ running[1].pc = "done" /\ running[1].outcome = "ok" /\ running[1].calls # <<>>
    /\ running[2].pc = "done" /\ running[2].outcome = "ok" /\ running[2].calls # <<>>
    /\ running[1].id # running[2].id
    /\ imageCache[KeyOfCustom(running[1].args)].Object = running[1].id
    /\ cm[KeyOfCustom(running[1].args)] \in {running[1].id, running[2].id}

----------------------------------------------------------------------------
\* the backend a caching call resolves through
BackendOf(l) ==
    IF l.op = "GetCustomImageID" THEN "custom"
    ELSE IF l.args.useSIG THEN "shared" ELSE "community"

\* the ID is of the backend and the image the call in l asks for
OfOwnBackend(l) ==
    LET d == l.args.defaultImage
        term == l.args.term
    IN IF BackendOf(l) = "custom"
       THEN HasPrefix(l.id, "/subscriptions/" \o term.GallerySubscriptionID
                              \o "/resourceGroups/" \o term.GalleryResourceGroupName
                              \o "/providers/Microsoft.Compute/galleries/"
                              \o term.GalleryName \o "/images/" \o term.Name
                              \o "/versions/")
       ELSE IF BackendOf(l) = "shared"
       THEN HasPrefix(l.id, "/subscriptions/" \o SIGSubscriptionID
                              \o "/resourceGroups/" \o d.GalleryResourceGroup
                              \o "/providers/Microsoft.Compute/galleries/"
                              \o d.GalleryName \o "/images/" \o d.ImageDefinition
                              \o "/versions/")
       ELSE HasPrefix(l.id, "/CommunityGalleries/" \o d.PublicGalleryURL
                              \o "/images/" \o d.ImageDefinition \o "/versions/")

\* C27: with the catalog's descriptors, every ID that GetLatestImageID
\* returns in shared mode is a shared-gallery ID of its descriptor, every ID
\* it returns in community mode a community-gallery ID of its descriptor,
\* and every ID GetCustomImageID returns an ID of its term's gallery image,
\* whether resolved or taken from the cache and whatever calls, in whatever
\* mode, came before; a call that follows a call which stored through
\* another backend is not answered from that entry.
C27_NoCrossBackendEntries ==
    [][ (/\ IsCall
         /\ last'.op \in {"GetLatestImageID", "GetCustomImageID"}
         /\ last'.outcome = "ok")
        => /\ OfOwnBackend(last')
           /\ (/\ last.op \in {"GetLatestImageID", "GetCustomImageID"}
               /\ last.outcome = "ok"
               /\ last.calls # <<>>
               /\ BackendOf(last) # BackendOf(last')
               /\ DOMAIN imageCache = {KeyOfOp(last.op, last.args)})
              => last'.calls # <<>>
      ]_vars

\* C27 witness: a descriptor was resolved in community mode and stored, and
\* the next call, for the same descriptor in shared mode, asked the node
\* image version service and returned a shared-gallery ID
C27_Witness ==
    /\ nCalls = 2
    /\ last.op = "GetLatestImageID"
    /\ last.args.useSIG
    /\ last.outcome = "ok"
    /\ last.calls # <<>>
    /\ LET d == last.args.defaultImage
           k == d.PublicGalleryURL \o "/" \o d.ImageDefinition
       IN /\ Live(imageCache, k, now)
          /\ HasPrefix(imageCache[k].Object, "/CommunityGalleries/")
          /\ ~HasPrefix(last.id, "/CommunityGalleries/")

----------------------------------------------------------------------------
(* KubeServerVersion against servers that report their version in various *)
(* spellings.                                                             *)

GitVersions == {"v1.24.9", "1.24.9", "vv1.24.9", "v", "", "1.24.9v", "V1.24.9"}

GitVersionResps ==
    {[NoResp EXCEPT !.serverVersion = [err |-> NoErr, GitVersion |-> g]] : g \in GitVersions}
    \cup {[NoResp EXCEPT !.serverVersion = [err |-> e, GitVersion |-> ""]] : e \in RemoteErrors}

KubeServerVersionSpellingCall ==
    /\ CanCall
    /\ \E r \in {KubeServerVersion(imageCache, kubernetesVersionCache, cm, now, resp) :
              resp \in GitVersionResps} :
        Complete("KubeServerVersion", NoArgs, r)

NextSpelling ==
    \/ KubeServerVersionSpellingCall
    \/ Tick

SpecSpelling == Init /\ [][NextSpelling]_vars

\* C28: a KubeServerVersion call that asks the server returns and caches,
\* for a reported version that begins with "v", the string that gives the
\* reported one back when a single "v" is put in front of it, and otherwise
\* the reported version itself; a call answered from the cache returns the
\* cached string, which is what the call that stored it returned.
C28_VersionNormalized ==
    [][ (IsCall /\ last'.op = "KubeServerVersion" /\ last'.outcome = "ok") =>
          LET reported == last'.resp.serverVersion.GitVersion
          IN IF last'.calls # <<>>
             THEN /\ IF HasPrefix(reported, "v")
                     THEN "v" \o last'.id = reported
                     ELSE last'.id = reported
                  /\ Live(kubernetesVersionCache', kubernetesVersionCacheKey, now)
                  /\ kubernetesVersionCache'[kubernetesVersionCacheKey].Object = last'.id
             ELSE /\ Live(kubernetesVersionCache, kubernetesVersionCacheKey, now)
                  /\ last'.id = kubernetesVersionCache[kubernetesVersionCacheKey].Object
                  /\ kubernetesVersionCache' = kubernetesVersionCache
                  /\ (last.op = "KubeServerVersion" /\ last.outcome = "ok")
                        => last'.id = last.id
      ]_vars

\* C28 witness: the server reported vv1.24.9, the call returned v1.24.9,
\* and the next call was answered v1.24.9 from the cache
C28_Witness ==
    /\ nCalls = 2
    /\ last.op = "KubeServerVersion"
    /\ last.outcome = "ok"
    /\ last.calls = <<>>
    /\ last.id = "v1.24.9"
    /\ cm = [k \in {"kubernetes-version"} |-> "v1.24.9"]

\* C28 witness: the server reported v1.24.9 and the call returned 1.24.9
C28_WitnessSinglePrefix ==
    /\ last.op = "KubeServerVersion"
    /\ last.resp.serverVersion.GitVersion = "v1.24.9"
    /\ last.id = "1.24.9"

====
